---- MODULE Spec2Model ----
(***************************************************************************)
(* Model of the global intermediate KPI data layer                         *)
(* (core/data_layer.py) and of the presentation services that read it      *)
(* (core/api_service.py).                                                  *)
(*                                                                         *)
(* A DataFrame is a record [columns |-> set of column names,               *)
(* rows |-> sequence of rows]; a row is a function from column names to    *)
(* values, and a NaN cell is a column that is not in the row's DOMAIN.     *)
(* A float is an exact rational [n |-> numerator, d |-> denominator > 0]   *)
(* in lowest terms; quantities read from the CSV files are integers.       *)
(***************************************************************************)
EXTENDS Integers, Sequences, FiniteSets, TLC

\* ------------------------------------------------------------------ bounds
MaxQty == 4
MaxHour == 1
MaxLen == 2
MaxCell == 2
MaxBuilds == 2

\* the largest percentage a MAPE cell holds
MaxMape == 100

\* --------------------------------------------------------- program constants
NominalCost == 10
UNIT_COST == 2
UNIT_PRICE == 5

\* ------------------------------------------------------------ small helpers
Restrict(f, S) == [c \in (DOMAIN f) \cap S |-> f[c]]

Max2(a, b) == IF a >= b THEN a ELSE b

Min2(a, b) == IF a <= b THEN a ELSE b

Abs(a) == IF a < 0 THEN -a ELSE a

RECURSIVE Gcd(_, _)
Gcd(a, b) == IF b = 0 THEN a ELSE Gcd(b, a % b)

\* the float n/d (d # 0), in lowest terms with a positive denominator
Rat(n, d) ==
    LET g == Gcd(Abs(n), Abs(d))
        s == IF d < 0 THEN -1 ELSE 1
    IN  [n |-> (s * n) \div g, d |-> (s * d) \div g]

RInt(k) == [n |-> k, d |-> 1]

RMul(r, k) == Rat(r.n * k, r.d)

RAdd(a, b) == Rat(a.n * b.d + b.n * a.d, a.d * b.d)

RLt(a, b) == a.n * b.d < b.n * a.d

RLe(a, b) == a.n * b.d <= b.n * a.d

\* Python's round(x, k) for scale = 10^k: the nearest multiple of 1/scale,
\* ties to the even one
RoundTo(r, scale) ==
    LET t == (scale * r.n) \div r.d
        rem2 == 2 * ((scale * r.n) % r.d)
        up == \/ rem2 > r.d
              \/ rem2 = r.d /\ t % 2 = 1
    IN  Rat(IF up THEN t + 1 ELSE t, scale)

Round1(r) == RoundTo(r, 10)

Round2(r) == RoundTo(r, 100)

RSub(a, b) == Rat(a.n * b.d - b.n * a.d, a.d * b.d)

RTimes(a, b) == Rat(a.n * b.n, a.d * b.d)

RAbs(a) == [n |-> Abs(a.n), d |-> a.d]

RMax(a, b) == IF a.n * b.d >= b.n * a.d THEN a ELSE b

RMin(a, b) == IF a.n * b.d <= b.n * a.d THEN a ELSE b

\* ----------------------------------------------------------------- strings
\* every string a cell can hold, in Python's (code point) order
SortedStrings ==
    << "DC1", "DC2", "F1", "F2", "L1", "L2", "SKU1", "SKU2", "ST1", "ST2",
       "dc", "dc_sku", "dc_sku_date_hour",
       "factory", "factory_line", "factory_line_date", "factory_line_date_hour",
       "store", "store_sku", "store_sku_date_hour" >>

StrRank(s) == CHOOSE i \in 1..Len(SortedStrings) : SortedStrings[i] = s

StringCols == {"factory_id", "line_id", "dc_id", "store_id", "sku_id", "kpi_level"}

\* the sort key of a non-NaN cell of column c
CellRank(c, v) == IF c \in StringCols THEN StrRank(v) ELSE v

\* lexicographic order of two rows on the key columns keys (a sequence);
\* a NaN key sorts after every value
RECURSIVE LexLess(_, _, _)
LexLess(keys, a, b) ==
    IF keys = <<>> THEN FALSE
    ELSE LET c == Head(keys)
             aNaN == c \notin DOMAIN a
             bNaN == c \notin DOMAIN b
         IN  IF aNaN /\ bNaN THEN LexLess(Tail(keys), a, b)
             ELSE IF aNaN THEN FALSE
             ELSE IF bNaN THEN TRUE
             ELSE IF CellRank(c, a[c]) < CellRank(c, b[c]) THEN TRUE
             ELSE IF CellRank(c, a[c]) > CellRank(c, b[c]) THEN FALSE
             ELSE LexLess(Tail(keys), a, b)

SeqToSet(s) == {s[i] : i \in 1..Len(s)}

\* ------------------------------------------------------- DataFrame algebra
EmptyDataFrame == [columns |-> {}, rows |-> <<>>]

\* DataFrame.empty
IsEmpty(df) == df.columns = {} \/ df.rows = <<>>

\* Series.sum(): NaN cells are skipped
RECURSIVE SumCol(_, _)
SumCol(rows, c) ==
    IF rows = <<>> THEN 0
    ELSE (IF c \in DOMAIN rows[1] THEN rows[1][c] ELSE 0) + SumCol(Tail(rows), c)

\* the distinct values of a set of rows, as a sequence sorted on keys
RECURSIVE SortedKeys(_, _)
SortedKeys(S, keys) ==
    IF S = {} THEN <<>>
    ELSE LET m == CHOOSE x \in S : \A y \in S \ {x} : LexLess(keys, x, y)
         IN  <<m>> \o SortedKeys(S \ {m}, keys)

\* df.groupby(keys).agg({c: "sum" for c in sumCols}).reset_index():
\* one row per distinct key, sorted by key, holding the key and the sums;
\* groupby leaves out the rows that have a NaN in a key column (dropna=True)
GroupBySum(rows, keys, sumCols) ==
    LET keySet == SeqToSet(keys)
        keyed == SelectSeq(rows, LAMBDA r : keySet \subseteq DOMAIN r)
        groups == SortedKeys({Restrict(keyed[i], keySet) : i \in 1..Len(keyed)}, keys)
        Members(k) == SelectSeq(keyed, LAMBDA r : Restrict(r, keySet) = k)
    IN  [i \in 1..Len(groups) |->
            groups[i] @@ [c \in sumCols |-> SumCol(Members(groups[i]), c)]]

\* a clip that leaves the column as it is
ClipLower0_none(rows, c) == rows

\* Series.clip(lower=0) on column c
ClipLower0(rows, c) ==
    [i \in 1..Len(rows) |->
        IF c \in DOMAIN rows[i] /\ rows[i][c] < 0
        THEN [rows[i] EXCEPT ![c] = 0] ELSE rows[i]]

RECURSIVE CountNeg(_, _)
CountNeg(rows, c) ==
    IF rows = <<>> THEN 0
    ELSE (IF c \in DOMAIN rows[1] /\ rows[1][c] < 0 THEN 1 ELSE 0)
         + CountNeg(Tail(rows), c)

\* a count of missing cells that finds none
CountNaN_none(rows, c) == 0

RECURSIVE CountNaN(_, _)
CountNaN(rows, c) ==
    IF rows = <<>> THEN 0
    ELSE (IF c \notin DOMAIN rows[1] THEN 1 ELSE 0) + CountNaN(Tail(rows), c)

RECURSIVE SumOver(_, _)
SumOver(S, f) ==
    IF S = {} THEN 0
    ELSE LET x == CHOOSE y \in S : TRUE IN f[x] + SumOver(S \ {x}, f)

\* ------------------------------------------------------ DataQualityLayer
\* the columns pandas reads as numbers
NumericCols ==
    { "prod_actual_qty", "prod_plan_qty", "defect_qty", "scrap_qty",
      "batch_size_units", "opening_stock_units", "predicted_demand",
      "expiring_within_24h_units", "forecast_hour_offset", "on_shelf_units",
      "planogram_capacity_units", "waste_units", "waste_cost" }

\* the numeric columns whose name contains qty, units, stock, demand or capacity
QuantityCols == NumericCols \ {"forecast_hour_offset", "waste_cost"}

RECURSIVE ClipAll(_, _)
ClipAll(rows, cols) ==
    IF cols = {} THEN rows
    ELSE LET c == CHOOSE x \in cols : TRUE
         IN  ClipAll(ClipLower0(rows, c), cols \ {c})

validate_dataframe(df, name) ==
    LET checked == df.columns \cap QuantityCols
        invalid == {c \in checked : CountNeg(df.rows, c) > 0}
        invalid_values == [c \in invalid |-> CountNeg(df.rows, c)]
        missingCols == {c \in df.columns : CountNaN(df.rows, c) > 0}
        missing_values == [c \in missingCols |-> CountNaN(df.rows, c)]
        total_cells == Len(df.rows) * Cardinality(df.columns)
        missing_cells == SumOver(missingCols, missing_values)
        invalid_cells == SumOver(invalid, invalid_values)
        score == Rat(Max2(total_cells, 1) - (missing_cells + invalid_cells),
                     Max2(total_cells, 1))
    IN  [ df |-> [columns |-> df.columns, rows |-> ClipAll(df.rows, invalid)],
          report |-> [ name |-> name,
                       original_rows |-> Len(df.rows),
                       missing_values |-> missing_values,
                       invalid_values |-> invalid_values,
                       data_quality_score |-> score,
                       final_rows |-> Len(df.rows),
                       rows_dropped |-> 0 ] ]

\* safe_divide that fills the zero denominators with 0.0 whatever the default
safe_divide_zero_fill(numerator, denominator, default) ==
    IF denominator = 0 THEN RInt(0) ELSE Rat(numerator, denominator)

\* numerator.div(denominator.replace(0, nan)).fillna(default), one position
safe_divide(numerator, denominator, default) ==
    IF denominator = 0 THEN default ELSE Rat(numerator, denominator)

\* a Series is a sequence of cells; a cell is <<v>>, or <<>> when it is NaN.
\* The cell of label i; Series.div aligns the two operands on their labels, a
\* label one of them lacks is NaN
CellAt(series, i) == IF i \in DOMAIN series THEN series[i] ELSE <<>>

\* safe_divide on two Series: a NaN on either side gives NaN in the division,
\* and fillna turns it into the default
safe_divide_series(numerator, denominator, default) ==
    [i \in 1..Max2(Len(numerator), Len(denominator)) |->
        IF CellAt(numerator, i) = <<>> \/ CellAt(denominator, i) = <<>>
        THEN <<default>>
        ELSE <<safe_divide(numerator[i][1], denominator[i][1], default)>>]

\* safe_divide(n, d, default=0.0) * 100.0
Pct(numerator, denominator) == RMul(safe_divide(numerator, denominator, RInt(0)), 100)

\* ------------------------------------------- IntermediateDataFrameBuilder
\* the outcome of a call: a value, or the exception it raised
Return(v) == [raised |-> "", value |-> v]

Raise(e) == [raised |-> e, value |-> EmptyDataFrame]

\* a CSV timestamp cell is the text <<day, hour>>; pd.to_datetime parses it
to_datetime(cell) == [date |-> cell[1], hour |-> cell[2]]

\* df["timestamp"] = pd.to_datetime(df["timestamp"]); df["date"] = ....dt.date;
\* df["hour"] = ....dt.hour
AddDateHour(df) ==
    IF "timestamp" \in df.columns
    THEN [ columns |-> df.columns \cup {"date", "hour"},
           rows |-> [i \in 1..Len(df.rows) |->
                        LET ts == to_datetime(df.rows[i].timestamp)
                        IN  [c \in (DOMAIN df.rows[i]) \cup {"date", "hour"} |->
                                IF c = "timestamp" THEN ts
                                ELSE IF c = "date" THEN ts.date
                                ELSE IF c = "hour" THEN ts.hour
                                ELSE df.rows[i][c]]] ]
    ELSE df

FactorySumCols ==
    {"prod_actual_qty", "prod_plan_qty", "defect_qty", "scrap_qty", "batch_size_units"}

FactoryKpiCols ==
    { "line_utilization_pct", "production_adherence_pct", "defect_rate_pct",
      "waste_units", "waste_sar", "kpi_level" }

\* the sum over rows of the percentage num/den of each row
RECURSIVE SumOfPct(_, _, _)
SumOfPct(rows, num, den) ==
    IF rows = <<>> THEN RInt(0)
    ELSE RAdd(Pct(rows[1][num], rows[1][den]), SumOfPct(Tail(rows), num, den))

\* a factory ladder whose production_adherence_pct is the mean of the
\* percentages of the group's raw rows
FactoryLevel_mean(rows, keys, level) ==
    LET g == GroupBySum(rows, keys, FactorySumCols)
        Members(k) == SelectSeq(rows, LAMBDA r :
                          \A c \in SeqToSet(keys) : c \in DOMAIN r /\ r[c] = k[c])
    IN  [i \in 1..Len(g) |->
            g[i] @@
            [ line_utilization_pct |-> Pct(g[i].prod_actual_qty, g[i].batch_size_units),
              production_adherence_pct |->
                  LET sum == SumOfPct(Members(g[i]), "prod_actual_qty", "prod_plan_qty")
                  IN  Rat(sum.n, sum.d * Len(Members(g[i]))),
              defect_rate_pct |-> Pct(g[i].defect_qty, g[i].prod_actual_qty),
              waste_units |-> g[i].scrap_qty,
              waste_sar |-> g[i].scrap_qty * NominalCost,
              kpi_level |-> level ]]

\* one level of the factory ladder: group, sum, recompute the ratios from the sums
FactoryLevel(rows, keys, level) ==
    LET g == GroupBySum(rows, keys, FactorySumCols)
    IN  [i \in 1..Len(g) |->
            g[i] @@
            [ line_utilization_pct |-> Pct(g[i].prod_actual_qty, g[i].batch_size_units),
              production_adherence_pct |-> Pct(g[i].prod_actual_qty, g[i].prod_plan_qty),
              defect_rate_pct |-> Pct(g[i].defect_qty, g[i].prod_actual_qty),
              waste_units |-> g[i].scrap_qty,
              waste_sar |-> g[i].scrap_qty * NominalCost,
              kpi_level |-> level ]]

compute_factory_kpis(df) ==
    LET hasLine == {"factory_id", "line_id"} \subseteq df.columns
        hasFactory == "factory_id" \in df.columns
        keys == IF hasLine THEN {"factory_id", "line_id", "date", "hour"}
                ELSE {"factory_id"}
    IN  IF ~(FactorySumCols \subseteq df.columns) THEN Return(EmptyDataFrame)
        ELSE IF hasLine /\ ~({"date", "hour"} \subseteq df.columns) THEN Raise("KeyError")
        ELSE IF ~hasFactory THEN Return(EmptyDataFrame)
        ELSE Return(
            [ columns |-> keys \cup FactorySumCols \cup FactoryKpiCols,
              rows |->
                (IF hasLine
                 THEN FactoryLevel(df.rows, <<"factory_id", "line_id", "date", "hour">>,
                                   "factory_line_date_hour")
                      \o FactoryLevel(df.rows, <<"factory_id", "line_id", "date">>,
                                      "factory_line_date")
                      \o FactoryLevel(df.rows, <<"factory_id", "line_id">>, "factory_line")
                 ELSE <<>>)
                \o FactoryLevel(df.rows, <<"factory_id">>, "factory") ])

DcSumCols == {"opening_stock_units", "predicted_demand"}

\* no filter on the forecast horizon
FilterOffset_none(df) == df.rows

\* df[df["forecast_hour_offset"] == 1]
FilterOffset(df) ==
    IF "forecast_hour_offset" \in df.columns
    THEN SelectSeq(df.rows, LAMBDA r : "forecast_hour_offset" \in DOMAIN r
                                       /\ r.forecast_hour_offset = 1)
    ELSE df.rows

\* a DC ladder whose backorder_units is the demand the stock does not cover
DcLevel_unmet(rows, keys, level, withCover) ==
    LET g == GroupBySum(rows, keys, DcSumCols)
    IN  [i \in 1..Len(g) |->
            LET stock == g[i].opening_stock_units
                demand == g[i].predicted_demand
            IN  g[i] @@
                [ service_level_pct |-> Pct(Min2(stock, demand), demand),
                  waste_pct |-> Pct(Max2(stock - demand, 0), stock),
                  backorder_units |-> Max2(demand - stock, 0),
                  kpi_level |-> level ] @@
                (IF withCover
                 THEN [days_cover |-> safe_divide(stock, demand, RInt(0))]
                 ELSE <<>>)]

\* a DC level whose waste_pct is the excess stock over the demand
DcLevel_waste_over_demand(rows, keys, level, withCover) ==
    LET g == GroupBySum(rows, keys, DcSumCols)
    IN  [i \in 1..Len(g) |->
            LET stock == g[i].opening_stock_units
                demand == g[i].predicted_demand
            IN  g[i] @@
                [ service_level_pct |-> Pct(Min2(stock, demand), demand),
                  waste_pct |-> Pct(Max2(stock - demand, 0), demand),
                  backorder_units |-> IF stock = 0 THEN demand ELSE 0,
                  kpi_level |-> level ] @@
                (IF withCover
                 THEN [days_cover |-> safe_divide(stock, demand, RInt(0))]
                 ELSE <<>>)]

\* one level of the DC ladder; days_cover is computed at the levels withCover
DcLevel(rows, keys, level, withCover) ==
    LET g == GroupBySum(rows, keys, DcSumCols)
    IN  [i \in 1..Len(g) |->
            LET stock == g[i].opening_stock_units
                demand == g[i].predicted_demand
            IN  g[i] @@
                [ service_level_pct |-> Pct(Min2(stock, demand), demand),
                  waste_pct |-> Pct(Max2(stock - demand, 0), stock),
                  backorder_units |-> IF stock = 0 THEN demand ELSE 0,
                  kpi_level |-> level ] @@
                (IF withCover
                 THEN [days_cover |-> safe_divide(stock, demand, RInt(0))]
                 ELSE <<>>)]

DcKpiCols == {"service_level_pct", "waste_pct", "backorder_units", "kpi_level"}

compute_dc_kpis(df) ==
    LET hasSku == {"dc_id", "sku_id"} \subseteq df.columns
        hasDc == "dc_id" \in df.columns
        rows == FilterOffset(df)
        keys == IF hasSku THEN {"dc_id", "sku_id", "date", "hour"} ELSE {"dc_id"}
    IN  IF ~(DcSumCols \subseteq df.columns) THEN Return(EmptyDataFrame)
        ELSE IF hasSku /\ ~({"date", "hour"} \subseteq df.columns) THEN Raise("KeyError")
        ELSE IF ~hasDc THEN Return(EmptyDataFrame)
        ELSE Return(
            [ columns |-> keys \cup DcSumCols \cup DcKpiCols
                          \cup (IF hasSku THEN {"days_cover"} ELSE {}),
              rows |->
                (IF hasSku
                 THEN DcLevel(rows, <<"dc_id", "sku_id", "date", "hour">>,
                              "dc_sku_date_hour", TRUE)
                      \o DcLevel(rows, <<"dc_id", "sku_id">>, "dc_sku", TRUE)
                 ELSE <<>>)
                \o DcLevel(rows, <<"dc_id">>, "dc", FALSE) ])

StoreSumCols == {"on_shelf_units", "planogram_capacity_units"}

CsvWasteCols == {"waste_units", "waste_cost"}

\* len(df[(df.store_id == id) & (df.on_shelf_units <= 0)])
RECURSIVE CountStockoutRows(_, _)
CountStockoutRows(rows, store_id) ==
    IF rows = <<>> THEN 0
    ELSE (IF rows[1].store_id = store_id /\ rows[1].on_shelf_units <= 0 THEN 1 ELSE 0)
         + CountStockoutRows(Tail(rows), store_id)

\* a store ladder that takes the waste of the CSV columns only for the groups
\* whose waste_units sum is positive, and the overflow over the capacity for
\* the other groups
StoreLevel_by_value(rows, keys, level, use_csv_waste, countRows) ==
    LET g == GroupBySum(rows, keys,
                        StoreSumCols \cup (IF use_csv_waste THEN CsvWasteCols ELSE {}))
    IN  [i \in 1..Len(g) |->
            LET on_shelf == g[i].on_shelf_units
                capacity == g[i].planogram_capacity_units
                from_csv == use_csv_waste /\ g[i].waste_units > 0
                waste_units == IF from_csv THEN g[i].waste_units
                               ELSE Max2(on_shelf - capacity, 0)
                computed ==
                    [ on_shelf_availability_pct |-> Pct(on_shelf, capacity),
                      stockout_incidents |->
                          IF countRows THEN CountStockoutRows(rows, g[i].store_id)
                          ELSE IF on_shelf = 0 THEN 1 ELSE 0,
                      waste_units |-> waste_units,
                      waste_sar |-> IF from_csv THEN g[i].waste_cost
                                    ELSE waste_units * NominalCost,
                      kpi_level |-> level ]
            IN  computed @@ g[i]]

\* one level of the store ladder; at the store level the stockouts are counted
\* over the input rows, at the finer levels over the aggregated row
StoreLevel(rows, keys, level, use_csv_waste, countRows) ==
    LET g == GroupBySum(rows, keys,
                        StoreSumCols \cup (IF use_csv_waste THEN CsvWasteCols ELSE {}))
    IN  [i \in 1..Len(g) |->
            LET on_shelf == g[i].on_shelf_units
                capacity == g[i].planogram_capacity_units
                waste_units == IF use_csv_waste THEN Max2(g[i].waste_units, 0)
                               ELSE Max2(on_shelf - capacity, 0)
                computed ==
                    [ on_shelf_availability_pct |-> Pct(on_shelf, capacity),
                      stockout_incidents |->
                          IF countRows THEN CountStockoutRows(rows, g[i].store_id)
                          ELSE IF on_shelf = 0 THEN 1 ELSE 0,
                      waste_units |-> waste_units,
                      waste_sar |-> IF use_csv_waste THEN g[i].waste_cost
                                    ELSE waste_units * NominalCost,
                      kpi_level |-> level ]
            IN  computed @@ g[i]]

StoreKpiCols ==
    { "on_shelf_availability_pct", "stockout_incidents", "waste_units", "waste_sar",
      "kpi_level" }

compute_store_kpis(df) ==
    LET hasSku == {"store_id", "sku_id"} \subseteq df.columns
        hasStore == "store_id" \in df.columns
        rows == ClipLower0(FilterOffset(df), "on_shelf_units")
        use_csv_waste == CsvWasteCols \subseteq df.columns
        keys == IF hasSku THEN {"store_id", "sku_id", "date", "hour"} ELSE {"store_id"}
    IN  IF ~(StoreSumCols \subseteq df.columns) THEN Return(EmptyDataFrame)
        ELSE IF hasSku /\ ~({"date", "hour"} \subseteq df.columns) THEN Raise("KeyError")
        ELSE IF ~hasStore THEN Return(EmptyDataFrame)
        ELSE Return(
            [ columns |-> keys \cup StoreSumCols \cup StoreKpiCols
                          \cup (IF use_csv_waste THEN {"waste_cost"} ELSE {}),
              rows |->
                (IF hasSku
                 THEN StoreLevel(rows, <<"store_id", "sku_id", "date", "hour">>,
                                 "store_sku_date_hour", use_csv_waste, FALSE)
                      \o StoreLevel(rows, <<"store_id", "sku_id">>, "store_sku",
                                    use_csv_waste, FALSE)
                 ELSE <<>>)
                \o StoreLevel(rows, <<"store_id">>, "store", use_csv_waste, TRUE) ])

\* ------------------------------------------------------ assembler (merge)
\* rows in the order of the first appearance of their key: rows with the same
\* key on the columns common follow the first of them
RECURSIVE GroupByAppearance(_, _)
GroupByAppearance(rows, common) ==
    IF rows = <<>> THEN <<>>
    ELSE LET k == Restrict(rows[1], common)
         IN  SelectSeq(rows, LAMBDA r : Restrict(r, common) = k)
             \o GroupByAppearance(SelectSeq(rows, LAMBDA r : Restrict(r, common) # k),
                                  common)

\* x placed after every row of the sorted sequence that is not greater than it
RECURSIVE InsertSorted(_, _, _)
InsertSorted(sorted, x, keys) ==
    IF sorted = <<>> THEN <<x>>
    ELSE IF LexLess(keys, x, sorted[1]) THEN <<x>> \o sorted
    ELSE <<sorted[1]>> \o InsertSorted(Tail(sorted), x, keys)

\* stable lexicographic sort on the key columns keys
RECURSIVE StableSort(_, _)
StableSort(rows, keys) ==
    IF rows = <<>> THEN <<>>
    ELSE InsertSorted(StableSort(SubSeq(rows, 1, Len(rows) - 1), keys),
                      rows[Len(rows)], keys)

RECURSIVE Flatten(_)
Flatten(ss) == IF ss = <<>> THEN <<>> ELSE ss[1] \o Flatten(Tail(ss))

\* pd.concat([left, right], axis=1): rows are paired by position
ConcatColumns(left, right) ==
    [ columns |-> left.columns \cup right.columns,
      rows |-> [i \in 1..Max2(Len(left.rows), Len(right.rows)) |->
                   (IF i <= Len(left.rows) THEN left.rows[i] ELSE <<>>) @@
                   (IF i <= Len(right.rows) THEN right.rows[i] ELSE <<>>)] ]

\* pd.merge(left, right, on=list(common_cols), how="outer"): rows with equal keys
\* (NaN equal to NaN) are joined, every other row is kept.  key_order is the
\* order in which list(common_cols) enumerates the set (it depends on the
\* interpreter's string hashing); <<>> stands for a pandas that keeps the keys
\* of an outer join in their order of first appearance instead of sorting them.
MergeOuter(left, right, common, key_order) ==
    LET Key(r) == Restrict(r, common)
        Matches(l) == SelectSeq(right.rows, LAMBDA r : Key(r) = Key(l))
        joined == Flatten([i \in 1..Len(left.rows) |->
                     LET m == Matches(left.rows[i])
                     IN  IF m = <<>> THEN <<left.rows[i]>>
                         ELSE [j \in 1..Len(m) |-> left.rows[i] @@ m[j]]])
        rightOnly == SelectSeq(right.rows,
                        LAMBDA r : \A i \in 1..Len(left.rows) : Key(left.rows[i]) # Key(r))
        grouped == GroupByAppearance(joined \o rightOnly, common)
    IN  [ columns |-> left.columns \cup right.columns,
          rows |-> IF key_order = <<>> THEN grouped
                   ELSE StableSort(grouped, SelectSeq(key_order, LAMBDA c : c \in common)) ]

\* a combining step that joins on the date and hour columns alone
CombineStep_date_hour(intermediate_df, df, key_order) ==
    LET common_cols == intermediate_df.columns \cap df.columns
    IN  IF common_cols # {}
        THEN MergeOuter(intermediate_df, df, common_cols \cap {"date", "hour"}, key_order)
        ELSE ConcatColumns(intermediate_df, df)

\* a combining step that joins on the common columns only when their listing
\* is sorted, and pastes the tables side by side otherwise
CombineStep_paste(intermediate_df, df, key_order) ==
    LET common_cols == intermediate_df.columns \cap df.columns
    IN  IF common_cols # {} /\ key_order # <<>>
        THEN MergeOuter(intermediate_df, df, common_cols, key_order)
        ELSE ConcatColumns(intermediate_df, df)

\* one step of the combining loop of build_intermediate_dataframe
CombineStep(intermediate_df, df, key_order) ==
    LET common_cols == intermediate_df.columns \cap df.columns
    IN  IF common_cols # {} THEN MergeOuter(intermediate_df, df, common_cols, key_order)
        ELSE ConcatColumns(intermediate_df, df)

RECURSIVE CombineAll(_, _, _)
CombineAll(acc, processed_dfs, key_order) ==
    IF processed_dfs = <<>> THEN acc
    ELSE CombineAll(CombineStep(acc, processed_dfs[1], key_order),
                    Tail(processed_dfs), key_order)

\* the extracts in the order build_intermediate_dataframe processes them
DomainKeys == <<"factory_predictions", "dc_forecasts", "store_forecasts">>

\* the domain's builder on the cleaned extract with date and hour derived
ComputeKpis(key, df) ==
    IF key = "factory_predictions" THEN compute_factory_kpis(df)
    ELSE IF key = "dc_forecasts" THEN compute_dc_kpis(df)
    ELSE compute_store_kpis(df)

\* what one pass of the loop does with the validated extract v
ProcessValidated(v, key) ==
    [report |-> v.report, kpis |-> ComputeKpis(key, AddDateHour(v.df))]

\* validate, derive date and hour, run the domain's builder
ProcessDomain(raw_dataframes, key) ==
    ProcessValidated(validate_dataframe(raw_dataframes[key], key), key)

\* one outcome per extract that is present, in the order of the loop
DomainOutcomes(raw_dataframes, present) ==
    [i \in 1..Len(present) |-> ProcessDomain(raw_dataframes, present[i])]

\* the loop stops at the first builder that raises; otherwise the tables are combined
Assemble(outs, key_order) ==
    LET failed == {i \in 1..Len(outs) : outs[i].kpis.raised # ""}
        last == IF failed = {} THEN Len(outs)
                ELSE CHOOSE i \in failed : \A j \in failed : i <= j
        processed_dfs == [i \in 1..Len(outs) |-> outs[i].kpis.value]
    IN  [ raised |-> IF failed = {} THEN "" ELSE outs[last].kpis.raised,
          quality_reports |-> [i \in 1..last |-> outs[i].report],
          processed_dfs |-> IF failed = {} THEN processed_dfs ELSE <<>>,
          intermediate_df |->
              IF failed # {} THEN <<>>
              ELSE IF processed_dfs = <<>> THEN <<EmptyDataFrame>>
              ELSE <<CombineAll(processed_dfs[1], Tail(processed_dfs), key_order)>> ]

\* build_intermediate_dataframe: raised is the exception that left the build
\* ("" when it returned); quality_reports are the reports appended until then;
\* processed_dfs are the per-domain KPI tables
build_intermediate_dataframe(raw_dataframes, key_order) ==
    Assemble(DomainOutcomes(raw_dataframes,
                            SelectSeq(DomainKeys, LAMBDA k : k \in DOMAIN raw_dataframes)),
             key_order)

\* ------------------------------------------------------- GlobalDataLayer
\* None, and every other falsy id argument
NoId == ""

\* get_dataframe without its guard: no table yet reads as an empty table
get_dataframe_unguarded(intermediate_df) ==
    IF intermediate_df = <<>> THEN [raised |-> "", value |-> [columns |-> {}, rows |-> <<>>]]
    ELSE [raised |-> "", value |-> intermediate_df[1]]

\* get_dataframe on the cached table (<<>> is None, <<df>> is a table)
get_dataframe(intermediate_df) ==
    IF intermediate_df = <<>> THEN Raise("RuntimeError")
    ELSE Return(intermediate_df[1])

\* the filtered rows with no level preferred
PreferLevel_none(rows, id, sub, bothLevels, idLevel) == rows

\* the aggregation level kept once the ids have been filtered on: with both
\* ids the rows of the two levels listed, with the entity id alone the rows of
\* the entity level, and every row when the preferred selection is empty
PreferLevel(rows, id, sub, bothLevels, idLevel) ==
    LET preferred ==
            IF id # NoId /\ sub # NoId
            THEN SelectSeq(rows, LAMBDA r : r.kpi_level \in bothLevels)
            ELSE IF id # NoId
            THEN SelectSeq(rows, LAMBDA r : r.kpi_level = idLevel)
            ELSE <<>>
    IN  IF preferred # <<>> THEN preferred ELSE rows

\* the body shared by get_factory_kpis, get_dc_kpis and get_store_kpis:
\* project on the domain's columns, drop the rows without the entity id, filter
\* on the ids given, then keep the preferred level when it has rows
FilteredKpis(intermediate_df, cols, idCol, subCol, id, sub, bothLevels, idLevel) ==
    LET got == get_dataframe(intermediate_df)
        df == got.value
        available_cols == cols \cap df.columns
        projected == [i \in 1..Len(df.rows) |-> Restrict(df.rows[i], available_cols)]
        dropped == SelectSeq(projected, LAMBDA r : idCol \in DOMAIN r)
        byId == IF id # NoId THEN SelectSeq(dropped, LAMBDA r : r[idCol] = id)
                ELSE dropped
        bySub == IF sub # NoId
                 THEN SelectSeq(byId, LAMBDA r : subCol \in DOMAIN r /\ r[subCol] = sub)
                 ELSE byId
    IN  IF got.raised # "" THEN got
        ELSE IF available_cols = {} THEN Return(EmptyDataFrame)
        ELSE IF idCol \notin available_cols THEN Raise("KeyError")
        ELSE IF sub # NoId /\ subCol \notin available_cols THEN Raise("KeyError")
        ELSE Return([ columns |-> available_cols,
                      rows |-> PreferLevel(bySub, id, sub, bothLevels, idLevel) ])

factory_cols ==
    { "factory_id", "line_id", "line_utilization_pct", "production_adherence_pct",
      "defect_rate_pct", "waste_units", "waste_sar", "kpi_level" }

get_factory_kpis(intermediate_df, factory_id, line_id) ==
    FilteredKpis(intermediate_df, factory_cols, "factory_id", "line_id",
                 factory_id, line_id, {"factory_line", "factory_line_date"}, "factory")

dc_cols ==
    { "dc_id", "sku_id", "service_level_pct", "waste_pct", "backorder_units",
      "days_cover", "kpi_level" }

get_dc_kpis(intermediate_df, dc_id, sku_id) ==
    FilteredKpis(intermediate_df, dc_cols, "dc_id", "sku_id",
                 dc_id, sku_id, {"dc_sku", "dc_sku_date_hour"}, "dc")

store_cols ==
    { "store_id", "sku_id", "on_shelf_availability_pct", "stockout_incidents",
      "waste_units", "waste_sar", "on_shelf_units", "planogram_capacity_units",
      "kpi_level" }

get_store_kpis(intermediate_df, store_id, sku_id) ==
    FilteredKpis(intermediate_df, store_cols, "store_id", "sku_id",
                 store_id, sku_id, {"store_sku", "store_sku_date_hour"}, "store")

\* ---------------------------------------------------------- get_node_health
\* Series.unique(): the distinct values of column c in order of appearance
RECURSIVE Unique(_, _)
Unique(rows, c) ==
    IF rows = <<>> THEN <<>>
    ELSE <<rows[1][c]>> \o Unique(SelectSeq(Tail(rows), LAMBDA r : r[c] # rows[1][c]), c)

\* raw[raw[idCol] == id] when the extract is cached, not empty, and holds the id
RawRowsOf(raw_dataframes, key, idCol, id) ==
    IF key \in DOMAIN raw_dataframes
       /\ ~IsEmpty(raw_dataframes[key])
       /\ idCol \in raw_dataframes[key].columns
    THEN SelectSeq(raw_dataframes[key].rows, LAMBDA r : idCol \in DOMAIN r /\ r[idCol] = id)
    ELSE <<>>

\* (num / den) * 100 if den > 0, else 0.0
PctIfPositive(num, den) == IF den > 0 THEN Rat(num * 100, den) ELSE RInt(0)

\* thresholds that name the last class "critical", as the comments do
NodeStatus_critical(service_level, waste_pct) ==
    IF RLt(RInt(90), service_level) /\ RLt(waste_pct, RInt(5)) THEN "good"
    ELSE IF \/ RLe(RInt(75), service_level) /\ RLe(service_level, RInt(90))
            \/ RLe(RInt(5), waste_pct) /\ RLe(waste_pct, RInt(15))
    THEN "warning"
    ELSE "critical"

\* the status thresholds of get_node_health
NodeStatus(service_level, waste_pct) ==
    IF RLt(RInt(90), service_level) /\ RLt(waste_pct, RInt(5)) THEN "good"
    ELSE IF \/ RLe(RInt(75), service_level) /\ RLe(service_level, RInt(90))
            \/ RLe(RInt(5), waste_pct) /\ RLe(waste_pct, RInt(15))
    THEN "warning"
    ELSE "danger"

\* alerts += 1 if waste_pct > 10
WasteAlert(waste_pct) == IF RLt(RInt(10), waste_pct) THEN 1 ELSE 0

NodeRecord(node_id, type, service_level, waste_pct, mape, alerts) ==
    [ node_id |-> node_id, type |-> type,
      service_level |-> Round1(service_level),
      waste_pct |-> Round1(waste_pct),
      mape |-> Round1(mape),
      alerts |-> alerts,
      status |-> NodeStatus(service_level, waste_pct) ]

\* abs((actual - forecast) / actual) * 100 if actual > 0, else 0.0
Mape(actual, forecast) ==
    IF actual > 0 THEN Rat(Abs(actual - forecast) * 100, actual) ELSE RInt(0)

\* the first row of the entity in the table a KPI getter returned
FirstRowOf(df, idCol, id) == SelectSeq(df.rows, LAMBDA r : r[idCol] = id)[1]

FactoryServiceLevel(factory_df, factory_id) ==
    FirstRowOf(factory_df, "factory_id", factory_id).production_adherence_pct

FactoryWastePct(raw_dataframes, factory_id) ==
    LET raw == RawRowsOf(raw_dataframes, "factory_predictions", "factory_id", factory_id)
    IN  IF raw # <<>>
           /\ {"scrap_qty", "prod_actual_qty"}
                 \subseteq raw_dataframes["factory_predictions"].columns
        THEN PctIfPositive(SumCol(raw, "scrap_qty"), SumCol(raw, "prod_actual_qty"))
        ELSE RInt(0)

FactoryNode(factory_df, raw_dataframes, factory_id) ==
    LET raw == RawRowsOf(raw_dataframes, "factory_predictions", "factory_id", factory_id)
        waste_pct == FactoryWastePct(raw_dataframes, factory_id)
        mape == IF raw # <<>>
                THEN Mape(SumCol(raw, "prod_actual_qty"), SumCol(raw, "prod_plan_qty"))
                ELSE RInt(0)
    IN  NodeRecord(factory_id, "Factory", FactoryServiceLevel(factory_df, factory_id),
                   waste_pct, mape, WasteAlert(waste_pct))

DcServiceLevel(dc_df, dc_id) == FirstRowOf(dc_df, "dc_id", dc_id).service_level_pct

DcWastePct(raw_dataframes, dc_id) ==
    LET raw == RawRowsOf(raw_dataframes, "dc_forecasts", "dc_id", dc_id)
    IN  IF raw # <<>>
           /\ {"expiring_within_24h_units", "opening_stock_units"}
                 \subseteq raw_dataframes["dc_forecasts"].columns
        THEN PctIfPositive(SumCol(raw, "expiring_within_24h_units"),
                           SumCol(raw, "opening_stock_units"))
        ELSE RInt(0)

DcNode(dc_df, raw_dataframes, dc_id) ==
    LET raw == RawRowsOf(raw_dataframes, "dc_forecasts", "dc_id", dc_id)
        waste_pct == DcWastePct(raw_dataframes, dc_id)
        mape == IF raw # <<>>
                THEN Mape(SumCol(raw, "opening_stock_units"), SumCol(raw, "predicted_demand"))
                ELSE RInt(0)
    IN  NodeRecord(dc_id, "DC", DcServiceLevel(dc_df, dc_id), waste_pct, mape,
                   WasteAlert(waste_pct))

StoreServiceLevel(store_df, raw_dataframes, store_id) ==
    LET raw == RawRowsOf(raw_dataframes, "store_forecasts", "store_id", store_id)
        positive == SelectSeq(raw, LAMBDA r : "on_shelf_units" \in DOMAIN r
                                              /\ r.on_shelf_units > 0)
    IN  IF "store_forecasts" \notin DOMAIN raw_dataframes
        THEN FirstRowOf(store_df, "store_id", store_id).on_shelf_availability_pct
        ELSE IF raw # <<>> /\ "on_shelf_units" \in raw_dataframes["store_forecasts"].columns
        THEN Rat(Len(positive) * 100, Len(raw))
        ELSE RInt(0)

StoreWastePct(store_df, raw_dataframes, store_id) ==
    LET raw == RawRowsOf(raw_dataframes, "store_forecasts", "store_id", store_id)
        waste_units == FirstRowOf(store_df, "store_id", store_id).waste_units
    IN  IF raw # <<>> /\ "predicted_demand" \in raw_dataframes["store_forecasts"].columns
        THEN PctIfPositive(waste_units, SumCol(raw, "predicted_demand"))
        ELSE RInt(0)

\* alerts of a store: 1 for the stockouts of its first row, 1 for its waste
StoreAlerts(store_df, store_id, waste_pct) ==
    (IF FirstRowOf(store_df, "store_id", store_id).stockout_incidents > 0 THEN 1 ELSE 0)
    + WasteAlert(waste_pct)

StoreNode(store_df, raw_dataframes, store_id) ==
    LET raw == RawRowsOf(raw_dataframes, "store_forecasts", "store_id", store_id)
        waste_pct == StoreWastePct(store_df, raw_dataframes, store_id)
        mape == IF raw # <<>>
                   /\ {"on_shelf_units", "predicted_demand"}
                         \subseteq raw_dataframes["store_forecasts"].columns
                THEN Mape(SumCol(ClipLower0(raw, "on_shelf_units"), "on_shelf_units"),
                          SumCol(raw, "predicted_demand"))
                ELSE RInt(0)
    IN  NodeRecord(store_id, "Store", StoreServiceLevel(store_df, raw_dataframes, store_id),
                   waste_pct, mape, StoreAlerts(store_df, store_id, waste_pct))

\* the ids get_node_health loops over in a getter's table
NodeIds(df, idCol) ==
    IF ~IsEmpty(df) /\ idCol \in df.columns THEN Unique(df.rows, idCol) ELSE <<>>

\* get_node_health: the records of the factories, then the DCs, then the stores
get_node_health(intermediate_df, raw_dataframes) ==
    LET f == get_factory_kpis(intermediate_df, NoId, NoId)
        d == get_dc_kpis(intermediate_df, NoId, NoId)
        s == get_store_kpis(intermediate_df, NoId, NoId)
        fIds == NodeIds(f.value, "factory_id")
        dIds == NodeIds(d.value, "dc_id")
        sIds == NodeIds(s.value, "store_id")
    IN  IF f.raised # "" THEN [raised |-> f.raised, value |-> <<>>]
        ELSE IF d.raised # "" THEN [raised |-> d.raised, value |-> <<>>]
        ELSE IF s.raised # "" THEN [raised |-> s.raised, value |-> <<>>]
        ELSE Return(
            [i \in 1..Len(fIds) |-> FactoryNode(f.value, raw_dataframes, fIds[i])]
            \o [i \in 1..Len(dIds) |-> DcNode(d.value, raw_dataframes, dIds[i])]
            \o [i \in 1..Len(sIds) |-> StoreNode(s.value, raw_dataframes, sIds[i])])

\* ------------------------------------------ get_global_command_center_kpis
\* Series.sum() of a column of floats
RECURSIVE RSumCol(_, _)
RSumCol(rows, c) ==
    IF rows = <<>> THEN RInt(0)
    ELSE RAdd(IF c \in DOMAIN rows[1] THEN rows[1][c] ELSE RInt(0),
              RSumCol(Tail(rows), c))

\* Series.mean() of a column of floats: NaN cells are skipped
RMeanCol(rows, c) ==
    LET present == SelectSeq(rows, LAMBDA r : c \in DOMAIN r)
        total == RSumCol(present, c)
    IN  Rat(total.n, total.d * Len(present))

\* a MAPE cell is the text of a number followed by "%", <<k>>, or a text that
\* is no number, <<>>; pd.to_numeric(..., errors="coerce").dropna() keeps the
\* numbers
ParsedMape(rows) ==
    LET cells == SelectSeq(rows, LAMBDA r : "MAPE" \in DOMAIN r /\ r.MAPE # <<>>)
    IN  [i \in 1..Len(cells) |-> [MAPE |-> cells[i].MAPE[1]]]

ForecastAccuracy(raw_dataframes, factory_df) ==
    LET key == "factory_predictions"
        mape_numeric ==
            IF key \in DOMAIN raw_dataframes /\ ~IsEmpty(raw_dataframes[key])
               /\ "MAPE" \in raw_dataframes[key].columns
            THEN ParsedMape(raw_dataframes[key].rows)
            ELSE <<>>
        fromMape ==
            IF mape_numeric # <<>>
            THEN RMax(RInt(0),
                      RMin(RInt(100),
                           RSub(RInt(100),
                                Rat(SumCol(mape_numeric, "MAPE"), Len(mape_numeric)))))
            ELSE RInt(0)
    IN  IF fromMape = RInt(0) /\ ~IsEmpty(factory_df)
           /\ "production_adherence_pct" \in factory_df.columns
        THEN RMeanCol(factory_df.rows, "production_adherence_pct")
        ELSE fromMape

WasteCost(raw_dataframes, factory_df, dc_df, store_df) ==
    LET factory_part ==
            IF ~IsEmpty(factory_df) /\ "waste_units" \in factory_df.columns
            THEN RInt(SumCol(factory_df.rows, "waste_units") * UNIT_COST)
            ELSE RInt(0)
        dc_part ==
            IF ~IsEmpty(dc_df) /\ "waste_pct" \in dc_df.columns
               /\ "dc_forecasts" \in DOMAIN raw_dataframes
               /\ ~IsEmpty(raw_dataframes["dc_forecasts"])
               /\ "opening_stock_units" \in raw_dataframes["dc_forecasts"].columns
            THEN LET dc_stock ==
                         SumCol(ClipLower0(raw_dataframes["dc_forecasts"].rows,
                                           "opening_stock_units"),
                                "opening_stock_units")
                     mean_pct == RMeanCol(dc_df.rows, "waste_pct")
                 IN  Rat(dc_stock * mean_pct.n * UNIT_COST, mean_pct.d * 100)
            ELSE RInt(0)
        store_part ==
            IF ~IsEmpty(store_df) /\ "waste_units" \in store_df.columns
            THEN RInt(SumCol(store_df.rows, "waste_units") * UNIT_COST)
            ELSE RInt(0)
    IN  RAdd(RAdd(factory_part, dc_part), store_part)

ServiceLevel(dc_df, store_df) ==
    LET hasDc == ~IsEmpty(dc_df) /\ "service_level_pct" \in dc_df.columns
        hasStore == ~IsEmpty(store_df) /\ "on_shelf_availability_pct" \in store_df.columns
        dc_service == RMeanCol(dc_df.rows, "service_level_pct")
        store_service == RMeanCol(store_df.rows, "on_shelf_availability_pct")
    IN  IF hasDc /\ hasStore
        THEN LET t == RAdd(dc_service, store_service) IN Rat(t.n, t.d * 2)
        ELSE IF hasDc THEN dc_service
        ELSE IF hasStore THEN store_service
        ELSE RInt(0)

OnShelfAvailability(raw_dataframes) ==
    LET key == "store_forecasts"
    IN  IF key \in DOMAIN raw_dataframes /\ ~IsEmpty(raw_dataframes[key])
           /\ {"on_shelf_units", "planogram_capacity_units"}
                 \subseteq raw_dataframes[key].columns
        THEN PctIfPositive(
                 SumCol(ClipLower0(raw_dataframes[key].rows, "on_shelf_units"),
                        "on_shelf_units"),
                 SumCol(raw_dataframes[key].rows, "planogram_capacity_units"))
        ELSE RInt(0)

Revenue(raw_dataframes) ==
    LET fkey == "factory_predictions"
        skey == "store_forecasts"
        fromFactory ==
            IF fkey \in DOMAIN raw_dataframes /\ ~IsEmpty(raw_dataframes[fkey])
               /\ "released_to_dc_qty" \in raw_dataframes[fkey].columns
            THEN SumCol(ClipLower0(raw_dataframes[fkey].rows, "released_to_dc_qty"),
                        "released_to_dc_qty") * UNIT_PRICE
            ELSE 0
    IN  IF fromFactory = 0 /\ skey \in DOMAIN raw_dataframes
           /\ ~IsEmpty(raw_dataframes[skey])
           /\ "predicted_demand" \in raw_dataframes[skey].columns
        THEN SumCol(ClipLower0(FilterOffset(raw_dataframes[skey]), "predicted_demand"),
                    "predicted_demand") * UNIT_PRICE
        ELSE fromFactory

\* manual_waste_cost - waste_cost + ai_service_benefit - manual_service_penalty
AiUplift(waste_cost, service_level) ==
    RSub(RAdd(RSub(RTimes(waste_cost, Rat(115, 100)), waste_cost),
              RMul(service_level, 50)),
         RMul(RSub(RInt(100), service_level), 1000))

get_global_command_center_kpis(intermediate_df, raw_dataframes) ==
    LET df == get_dataframe(intermediate_df)
        f == get_factory_kpis(intermediate_df, NoId, NoId)
        d == get_dc_kpis(intermediate_df, NoId, NoId)
        s == get_store_kpis(intermediate_df, NoId, NoId)
        waste_cost == WasteCost(raw_dataframes, f.value, d.value, s.value)
        service_level == ServiceLevel(d.value, s.value)
        revenue == RInt(Revenue(raw_dataframes))
    IN  IF df.raised # "" THEN [raised |-> df.raised, value |-> <<>>]
        ELSE IF f.raised # "" THEN [raised |-> f.raised, value |-> <<>>]
        ELSE IF d.raised # "" THEN [raised |-> d.raised, value |-> <<>>]
        ELSE IF s.raised # "" THEN [raised |-> s.raised, value |-> <<>>]
        ELSE Return(
            [ forecast_accuracy |-> Round1(ForecastAccuracy(raw_dataframes, f.value)),
              waste_cost |-> Round2(waste_cost),
              service_level |-> Round1(service_level),
              on_shelf_availability |-> Round1(OnShelfAvailability(raw_dataframes)),
              net_margin |-> Round2(RAbs(RSub(revenue, waste_cost))),
              revenue |-> Round2(revenue),
              ai_uplift |-> Round2(RMax(RInt(0), AiUplift(waste_cost, service_level))) ])

\* ----------------------------------------------------- presentation services
\* df[col] == id on a column the frame may lack
FilterEq(out, col, id) ==
    IF out.raised # "" \/ id = NoId THEN out
    ELSE IF col \notin out.value.columns THEN Raise("KeyError")
    ELSE Return([ columns |-> out.value.columns,
                  rows |-> SelectSeq(out.value.rows,
                                     LAMBDA r : col \in DOMAIN r /\ r[col] = id) ])

\* factory_raw["timestamp"] = pd.to_datetime(...); factory_raw["hour"] = ....dt.hour
AddHour(df) ==
    [ columns |-> df.columns \cup {"hour"},
      rows |-> [i \in 1..Len(df.rows) |->
                   LET ts == to_datetime(df.rows[i].timestamp)
                   IN  [c \in (DOMAIN df.rows[i]) \cup {"hour"} |->
                           IF c = "timestamp" THEN ts
                           ELSE IF c = "hour" THEN ts.hour
                           ELSE df.rows[i][c]]] ]

\* FactoryKPIService.get_factory_hourly_production: the frame it works on is
\* the cached extract itself unless an id filter replaced it by a selection;
\* raw_dataframes is the cache as the call leaves it.  An entry's hour h
\* stands for the label "hh:00".
get_factory_hourly_production(raw_dataframes, factory_id, line_id) ==
    LET key == "factory_predictions"
        cached == raw_dataframes[key]
        filtered == FilterEq(FilterEq(Return(cached), "factory_id", factory_id),
                             "line_id", line_id)
        isCache == factory_id = NoId /\ line_id = NoId
        needsHour == "hour" \notin filtered.value.columns
                     /\ "timestamp" \in filtered.value.columns
        factory_raw == IF needsHour THEN AddHour(filtered.value) ELSE filtered.value
        after == IF needsHour /\ isCache
                 THEN [raw_dataframes EXCEPT ![key] = factory_raw]
                 ELSE raw_dataframes
        demandCol == IF "y_pred" \in factory_raw.columns
                        /\ SumCol(factory_raw.rows, "y_pred") # 0
                     THEN "y_pred"
                     ELSE IF "dc_demand_24h" \in factory_raw.columns THEN "dc_demand_24h"
                     ELSE ""
        hourly == GroupBySum(factory_raw.rows, <<"hour">>,
                             {"prod_actual_qty"} \cup (IF demandCol = "" THEN {}
                                                       ELSE {demandCol}))
        present == {hourly[i].hour : i \in 1..Len(hourly)}
        Entry(h) ==
            IF h \in present
            THEN LET g == CHOOSE r \in SeqToSet(hourly) : r.hour = h
                 IN  [ hour |-> h, actual |-> g.prod_actual_qty,
                       demand |-> IF demandCol = "" THEN 0 ELSE g[demandCol] ]
            ELSE [hour |-> h, actual |-> 0, demand |-> 0]
        Done(out) == [raised |-> out.raised, value |-> out.value, raw_dataframes |-> after]
        Early(out) == [ raised |-> out.raised, value |-> out.value,
                        raw_dataframes |-> raw_dataframes ]
    IN  IF key \notin DOMAIN raw_dataframes THEN Early(Return(<<>>))
        ELSE IF IsEmpty(cached) THEN Early(Return(<<>>))
        ELSE IF filtered.raised # "" THEN Early([raised |-> filtered.raised, value |-> <<>>])
        ELSE IF IsEmpty(filtered.value) THEN Early(Return(<<>>))
        ELSE IF "hour" \notin factory_raw.columns THEN Done(Return(<<>>))
        ELSE IF ~({"prod_actual_qty", "y_pred"} \subseteq factory_raw.columns)
        THEN Done([raised |-> "KeyError", value |-> <<>>])
        ELSE Done(Return([h \in 1..24 |-> Entry(h - 1)]))

\* ------------------------------------------------------------------ inputs
\* rows of the three CSV extracts
FRow(factory_id, line_id, day, hour, actual, plan, defect, scrap, batch) ==
    [ factory_id |-> factory_id, line_id |-> line_id, timestamp |-> <<day, hour>>,
      prod_actual_qty |-> actual, prod_plan_qty |-> plan, defect_qty |-> defect,
      scrap_qty |-> scrap, batch_size_units |-> batch, y_pred |-> plan ]

DRow(dc_id, sku_id, day, hour, offset, stock, demand, expiring) ==
    [ dc_id |-> dc_id, sku_id |-> sku_id, timestamp |-> <<day, hour>>,
      forecast_hour_offset |-> offset, opening_stock_units |-> stock,
      predicted_demand |-> demand, expiring_within_24h_units |-> expiring ]

SRow(store_id, sku_id, day, hour, offset, on_shelf, capacity, demand) ==
    [ store_id |-> store_id, sku_id |-> sku_id, timestamp |-> <<day, hour>>,
      forecast_hour_offset |-> offset, on_shelf_units |-> on_shelf,
      planogram_capacity_units |-> capacity, predicted_demand |-> demand ]

\* pd.read_csv of a file with the rows given (at least one)
Csv(rows) == [columns |-> DOMAIN rows[1], rows |-> rows]

\* the same file without the column c
WithoutColumn(df, c) ==
    [ columns |-> df.columns \ {c},
      rows |-> [i \in 1..Len(df.rows) |-> Restrict(df.rows[i], df.columns \ {c})] ]

\* the datasets directory: the files that exist, by the key load_raw_data gives them
Datasets(hasFactory, f, hasDc, d, hasStore, s) ==
    (IF hasFactory THEN [factory_predictions |-> f] ELSE <<>>) @@
    (IF hasDc THEN [dc_forecasts |-> d] ELSE <<>>) @@
    (IF hasStore THEN [store_forecasts |-> s] ELSE <<>>)

Qty == 0..MaxQty

BaseFactory == Csv(<<FRow("F1", "L1", 1, 0, 3, 4, 0, 1, 4)>>)

BaseDc == Csv(<<DRow("DC1", "SKU1", 1, 0, 1, 2, 2, 0)>>)

BaseStore == Csv(<<SRow("ST1", "SKU1", 1, 0, 1, 2, 4, 2)>>)

\* scenario "lifecycle": which files exist and which columns they have
LifecycleFactory ==
    { Csv(<<FRow("F1", "L1", 1, 0, 3, 4, 0, 1, 4), FRow("F2", "L2", 1, MaxHour, 4, 4, 1, 0, 4)>>),
      WithoutColumn(BaseFactory, "scrap_qty") }

LifecycleDc ==
    { Csv(<<DRow("DC1", "SKU1", 1, 0, 1, 2, 2, 0), DRow("DC1", "SKU2", 1, 0, 1, 0, 3, 0)>>),
      WithoutColumn(BaseDc, "predicted_demand") }

LifecycleStore ==
    { Csv(<<SRow("ST1", "SKU1", 1, 0, 1, 2, 4, 2), SRow("ST1", "SKU2", 1, 0, 1, 0, 4, 2)>>),
      WithoutColumn(BaseStore, "planogram_capacity_units") }

\* scenario "health": every extract is usable; one of them varies in its quantities
HealthFactory ==
    { Csv(<<FRow("F1", "L1", 1, 0, a, p, 0, s, 4)>> \o more) :
        a \in Qty, p \in Qty, s \in Qty,
        more \in { <<FRow("F1", "L1", 1, MaxHour, 1, 1, 0, 0, 4)>>,
                   <<FRow("F2", "L1", 1, 0, 4, 4, 0, 0, 4)>> } }

HealthDc ==
    { Csv(<<DRow("DC1", "SKU1", 1, 0, 1, st, dm, ex)>> \o more) :
        st \in Qty, dm \in Qty, ex \in Qty,
        more \in { <<DRow("DC1", "SKU2", 1, 0, 1, 1, 1, 0)>>,
                   <<DRow("DC2", "SKU1", 1, 0, 2, 4, 4, 0)>> } }

HealthStore ==
    { Csv(<<SRow("ST1", "SKU1", 1, 0, 1, on, cap, dm)>> \o more) :
        on \in Qty, cap \in Qty, dm \in Qty,
        more \in { <<SRow("ST1", "SKU2", 1, 0, 1, 0, 4, 1)>>,
                   <<SRow("ST2", "SKU1", 1, MaxHour, 1, 4, 4, 1)>> } }

\* factory extracts with a MAPE column: a cell is the text of a percentage,
\* <<k>> for "k%", or a text that is no number, <<>>
MapeCells == {<<>>, <<0>>, <<2>>, <<MaxMape>>}

MapeFactory ==
    { Csv(<< FRow("F1", "L1", 1, 0, 3, 4, 0, 1, 4) @@ [MAPE |-> m1],
             FRow("F1", "L1", 1, MaxHour, 4, 4, 0, 0, 4) @@ [MAPE |-> m2] >>) :
        m1, m2 \in MapeCells }

\* raw extracts with negative quantities: the builder aggregates a clipped
\* copy, the facade keeps the extract as it was read
NegativeFactory ==
    { Csv(<< FRow("F1", "L1", 1, 0, 3, 4, 0, -1, 4) >>),
      Csv(<< FRow("F1", "L1", 1, 0, -1, 2, 0, 1, 4) >>) }

NegativeDc == { Csv(<< DRow("DC1", "SKU1", 1, 0, 1, 2, 3, -1) >>) }

\* a factory on plan without scrap, a DC short of stock with all of it
\* expiring, and a store whose first hour has an empty shelf and recorded waste
AlertDatasets ==
    Datasets(TRUE, Csv(<< FRow("F1", "L1", 1, 0, 4, 4, 0, 0, 4) >>),
             TRUE, Csv(<< DRow("DC1", "SKU1", 1, 0, 1, 1, 4, 1) >>),
             TRUE, Csv(<< SRow("ST1", "SKU1", 1, 0, 1, 0, 3, 1)
                             @@ [waste_units |-> 1, waste_cost |-> 3],
                          SRow("ST1", "SKU1", 1, MaxHour, 1, MaxQty, 1, 1)
                             @@ [waste_units |-> 1, waste_cost |-> 3] >>))

FileSystems(sc) ==
    IF sc = "lifecycle"
    THEN { Datasets(hf, f, hd, d, hs, s) :
             hf \in BOOLEAN, f \in LifecycleFactory, hd \in BOOLEAN, d \in LifecycleDc,
             hs \in BOOLEAN, s \in LifecycleStore }
         \cup { Datasets(TRUE, WithoutColumn(BaseFactory, "timestamp"), FALSE, BaseDc,
                         FALSE, BaseStore) }
    ELSE { Datasets(TRUE, f, TRUE, BaseDc, TRUE, BaseStore) : f \in HealthFactory }
         \cup { Datasets(TRUE, BaseFactory, TRUE, d, TRUE, BaseStore) : d \in HealthDc }
         \cup { Datasets(TRUE, BaseFactory, TRUE, BaseDc, TRUE, s) : s \in HealthStore }
         \cup { Datasets(TRUE, f, TRUE, BaseDc, TRUE, BaseStore) :
                  f \in MapeFactory \cup NegativeFactory }
         \cup { Datasets(TRUE, BaseFactory, TRUE, d, TRUE, BaseStore) : d \in NegativeDc }
         \cup { AlertDatasets }

\* the orders in which list(common_cols) may enumerate the merge keys; <<>> is
\* the order of first appearance
KeyOrders ==
    { <<>>,
      <<"kpi_level", "date", "hour", "sku_id", "waste_units", "waste_sar">>,
      <<"hour", "waste_units", "date", "sku_id", "kpi_level", "waste_sar">> }

BaseDirs(sc) == IF sc = "lifecycle" THEN {"/app", "/srv"} ELSE {"/app"}

FactoryIdArgs(sc) == IF sc = "lifecycle" THEN {NoId, "F1"} ELSE {NoId}

LineIdArgs(sc) == IF sc = "lifecycle" THEN {NoId, "L1"} ELSE {NoId}

DcIdArgs(sc) == IF sc = "lifecycle" THEN {NoId, "DC1"} ELSE {NoId}

StoreIdArgs(sc) == IF sc = "lifecycle" THEN {NoId, "ST1"} ELSE {NoId}

SkuIdArgs(sc) == IF sc = "lifecycle" THEN {NoId, "SKU1"} ELSE {NoId}

\* ----------------------------------------------------------- state machine
VARIABLES
    scenario,             \* the input universe of this run (never changes)
    _dataframe_builder,   \* GlobalDataLayer._dataframe_builder: <<>> (None) or <<builder>>
    _raw_dataframes,      \* GlobalDataLayer._raw_dataframes: key -> DataFrame
    _intermediate_df,     \* GlobalDataLayer._intermediate_df: <<>> (None) or <<DataFrame>>
    returned,             \* the outcome of the last call and the object the caller holds
    loaded                \* history: the caches as the successful initialize left them

vars == <<scenario, _dataframe_builder, _raw_dataframes, _intermediate_df, returned, loaded>>

facade == <<_dataframe_builder, _raw_dataframes, _intermediate_df>>

\* the outcome of a call, as the caller sees it; alias names the facade object
\* the returned value is ("" for an object of its own)
\* touched tells that the caller has modified the value since
Outcome(op, args, out, alias) ==
    [ op |-> op, args |-> args, raised |-> out.raised, value |-> out.value,
      alias |-> alias, touched |-> FALSE ]

NoCall ==
    [ op |-> "", args |-> <<>>, raised |-> "", value |-> <<>>, alias |-> "",
      touched |-> FALSE ]

\* the facade object each getter hands out: the table getters return copies,
\* get_quality_reports returns the builder's own list
ReturnedObject(op) == IF op = "get_quality_reports" THEN "quality_reports" ELSE ""

InitFacade ==
    /\ _dataframe_builder = <<>>
    /\ _raw_dataframes = <<>>
    /\ _intermediate_df = <<>>
    /\ returned = NoCall
    /\ loaded = <<>>

Init == scenario = "lifecycle" /\ InitFacade

InitHealth == scenario = "health" /\ InitFacade

\* os.path.exists / pd.read_csv over the datasets directory
load_raw_data(files) == files

\* initialize without its guard
AlreadyInitialized_never(intermediate_df) == FALSE

\* the guard of initialize: the intermediate table is already there
AlreadyInitialized(intermediate_df) == intermediate_df # <<>>

\* initialize past its guard: the builder and the raw extracts are stored before
\* the build runs, the intermediate table only when the build returns
Load(base_dir, raw, built) ==
    /\ _dataframe_builder' =
          << [base_dir |-> base_dir, quality_reports |-> built.quality_reports] >>
    /\ _raw_dataframes' = raw
    /\ _intermediate_df' = built.intermediate_df
    /\ returned' = Outcome("initialize", <<base_dir>>,
                           [raised |-> built.raised, value |-> <<>>], "")
    /\ loaded' = IF built.raised = ""
                 THEN << [ intermediate_df |-> built.intermediate_df[1],
                           raw_dataframes |-> raw,
                           quality_reports |-> built.quality_reports,
                           processed_dfs |-> built.processed_dfs ] >>
                 ELSE loaded

\* GlobalDataLayer.initialize(base_dir); files is what the datasets directory
\* of base_dir holds when the call reads it
Initialize(base_dir) ==
    /\ UNCHANGED scenario
    /\ IF AlreadyInitialized(_intermediate_df)
       THEN /\ UNCHANGED <<facade, loaded>>
            /\ returned' = Outcome("initialize", <<base_dir>>, Return(<<>>), "")
       ELSE \E files \in FileSystems(scenario), key_order \in KeyOrders :
              Load(base_dir, load_raw_data(files),
                   build_intermediate_dataframe(load_raw_data(files), key_order))

\* the web application calls initialize when it is imported, before it serves
\* any request; used as a library the facade can be called in any order
Serving == scenario = "lifecycle" \/ _dataframe_builder # <<>>

\* a getter: it reads the facade and returns
Getter(op, args, out) ==
    /\ Serving
    /\ returned' = Outcome(op, args, out, ReturnedObject(op))
    /\ UNCHANGED <<scenario, facade, loaded>>

GetDataframe == Getter("get_dataframe", <<>>, get_dataframe(_intermediate_df))

GetFactoryKpis(factory_id, line_id) ==
    Getter("get_factory_kpis", <<factory_id, line_id>>,
           get_factory_kpis(_intermediate_df, factory_id, line_id))

GetDcKpis(dc_id, sku_id) ==
    Getter("get_dc_kpis", <<dc_id, sku_id>>, get_dc_kpis(_intermediate_df, dc_id, sku_id))

GetStoreKpis(store_id, sku_id) ==
    Getter("get_store_kpis", <<store_id, sku_id>>,
           get_store_kpis(_intermediate_df, store_id, sku_id))

GetNodeHealth ==
    Getter("get_node_health", <<>>, get_node_health(_intermediate_df, _raw_dataframes))

GetGlobalCommandCenterKpis ==
    Getter("get_global_command_center_kpis", <<>>,
           get_global_command_center_kpis(_intermediate_df, _raw_dataframes))

\* get_quality_reports: the builder's list, or [] without a builder
GetQualityReports ==
    Getter("get_quality_reports", <<>>,
           Return(IF _dataframe_builder # <<>>
                  THEN _dataframe_builder[1].quality_reports ELSE <<>>))

\* the presentation service that reads the raw extract cache
ServiceCall(op, args, out) ==
    /\ Serving
    /\ _raw_dataframes' = out.raw_dataframes
    /\ returned' = Outcome(op, args, out, "")
    /\ UNCHANGED <<scenario, _dataframe_builder, _intermediate_df, loaded>>

GetFactoryHourlyProduction(factory_id, line_id) ==
    ServiceCall("get_factory_hourly_production", <<factory_id, line_id>>,
                get_factory_hourly_production(_raw_dataframes, factory_id, line_id))

TableOps ==
    {"get_dataframe", "get_factory_kpis", "get_dc_kpis", "get_store_kpis"}

\* the value after the caller emptied it in place (df.drop(df.index,
\* inplace=True), list.clear(), dict.clear())
Cleared(op, value) ==
    IF op \in TableOps THEN [columns |-> value.columns, rows |-> <<>>] ELSE <<>>

\* the caller modifies, in place, the object the last getter returned
CallerMutate ==
    /\ returned.op \in TableOps \cup {"get_node_health", "get_quality_reports",
                                      "get_global_command_center_kpis"}
    /\ returned.raised = ""
    /\ returned.value # Cleared(returned.op, returned.value)
    /\ returned' = [returned EXCEPT !.value = Cleared(returned.op, returned.value),
                                    !.touched = TRUE]
    /\ _dataframe_builder' =
          IF returned.alias = "quality_reports" /\ _dataframe_builder # <<>>
          THEN << [_dataframe_builder[1] EXCEPT !.quality_reports = <<>>] >>
          ELSE _dataframe_builder
    /\ _intermediate_df' =
          IF returned.alias = "_intermediate_df"
          THEN << Cleared(returned.op, returned.value) >>
          ELSE _intermediate_df
    /\ UNCHANGED <<scenario, _raw_dataframes, loaded>>

Next ==
    \/ \E base_dir \in BaseDirs(scenario) : Initialize(base_dir)
    \/ GetDataframe
    \/ \E factory_id \in FactoryIdArgs(scenario), line_id \in LineIdArgs(scenario) :
          GetFactoryKpis(factory_id, line_id)
    \/ \E dc_id \in DcIdArgs(scenario), sku_id \in SkuIdArgs(scenario) :
          GetDcKpis(dc_id, sku_id)
    \/ \E store_id \in StoreIdArgs(scenario), sku_id \in SkuIdArgs(scenario) :
          GetStoreKpis(store_id, sku_id)
    \/ GetNodeHealth
    \/ GetGlobalCommandCenterKpis
    \/ GetQualityReports
    \/ \E factory_id \in FactoryIdArgs(scenario), line_id \in LineIdArgs(scenario) :
          GetFactoryHourlyProduction(factory_id, line_id)
    \/ CallerMutate

Spec == Init /\ [][Next]_vars

SpecHealth == InitHealth /\ [][Next]_vars

\* ------------------------------------- the quality layer and the builder alone
\* scenario "builder": the static methods of DataQualityLayer and the methods of
\* IntermediateDataFrameBuilder are called directly, on the caller's own tables

\* the cells of a numeric Series: NaN, or a value
SeriesCells == {<<>>} \cup {<<v>> : v \in -1..MaxCell}

SeriesInputs == UNION {[1..n -> SeriesCells] : n \in 0..MaxLen}

Defaults == {RInt(0), RInt(1)}

\* a table row from its cells: a NaN cell is a column the row does not hold
RowOfCells(cells) ==
    [c \in {x \in DOMAIN cells : cells[x] # <<>>} |-> cells[c][1]]

\* the cells of a raw numeric column: NaN, negative, zero or positive
DirtyCells == {<<>>, <<-1>>, <<0>>, <<MaxQty>>}

\* raw extracts as read_csv may give them to validate_dataframe: two quantity
\* columns and a numeric column that is not a quantity, any of them negative
DirtyRows ==
    { RowOfCells([ dc_id |-> <<"DC1">>, opening_stock_units |-> stock,
                   predicted_demand |-> demand, forecast_hour_offset |-> <<offset>> ]) :
        stock \in DirtyCells, demand \in DirtyCells, offset \in {-1, 1} }

DirtyTables ==
    { [ columns |-> {"dc_id", "opening_stock_units", "predicted_demand",
                     "forecast_hour_offset"},
        rows |-> rows ] : rows \in UNION {[1..n -> DirtyRows] : n \in 0..MaxLen} }

\* what build_intermediate_dataframe hands to the _compute_*_kpis methods: the
\* validated extract with its date and hour columns
\* tables of quantity columns only: every cell may be missing or negative
QuantityTables ==
    { [columns |-> {"opening_stock_units", "predicted_demand"}, rows |-> rows] :
        rows \in UNION { [1..n -> { RowOfCells([opening_stock_units |-> stock,
                                                 predicted_demand |-> demand]) :
                                       stock, demand \in DirtyCells }] :
                          n \in 0..MaxLen } }

Cleaned(df, name) == AddDateHour(validate_dataframe(df, name).df)

\* the extract df with an empty cell in column c of row i
MissingCell(df, i, c) ==
    [df EXCEPT !.rows[i] = Restrict(df.rows[i], (DOMAIN df.rows[i]) \ {c})]

\* two rows of one factory, line, date and hour
TwoRowsOneHour ==
    Csv(<< FRow("F1", "L1", 1, 0, 80, 50, 0, 0, 100),
           FRow("F1", "L1", 1, 0, 120, 150, 0, 0, 100) >>)

\* factory extracts: complete ones, and ones whose first row has no line_id
BuilderFactory ==
    {Cleaned(df, "factory_predictions") : df \in HealthFactory \cup {TwoRowsOneHour}}
    \cup {Cleaned(MissingCell(df, 1, "line_id"), "factory_predictions") :
            df \in LifecycleFactory \cup {BaseFactory}}

\* a DC with no stock and a demand of 50
EmptyStock == Csv(<<DRow("DC1", "SKU1", 1, 0, 1, 0, 50, 0)>>)

\* a DC group with a next-hour row and a later-horizon row, and a DC that has
\* a later-horizon row only
OtherOffsetDc ==
    Csv(<< DRow("DC1", "SKU1", 1, 0, 1, 2, 3, 0), DRow("DC1", "SKU1", 1, 0, 2, 4, 1, 0),
           DRow("DC2", "SKU1", 1, 0, 3, 0, 4, 0) >>)

BuilderDc ==
    {Cleaned(df, "dc_forecasts") : df \in HealthDc \cup {EmptyStock, OtherOffsetDc}}

\* a store row that also has the waste columns of the CSV
SRowWaste(store_id, sku_id, hour, on_shelf, capacity, waste_units, waste_cost) ==
    SRow(store_id, sku_id, 1, hour, 1, on_shelf, capacity, 1)
    @@ [waste_units |-> waste_units, waste_cost |-> waste_cost]

\* store extracts with both waste columns: one row varies, a second row of the
\* same store and SKU is over its capacity
WasteStore ==
    { Csv(<< SRowWaste("ST1", "SKU1", 0, on, MaxQty - 1, wu, wc),
             SRowWaste("ST1", "SKU1", MaxHour, MaxQty, 1, 1, 3) >>) :
        on \in Qty, wu \in -1..1, wc \in {-1, 0, 7} }

\* a shelf that holds 120 units over a capacity of 100
OverCapacity == Csv(<<SRow("ST1", "SKU1", 1, 0, 1, 120, 100, 1)>>)

\* a store group with a next-hour row and an empty shelf at a later horizon,
\* and a store that has a later-horizon row only
OtherOffsetStore ==
    Csv(<< SRow("ST1", "SKU1", 1, 0, 1, 2, 4, 1), SRow("ST1", "SKU1", 1, 0, 2, 0, 4, 1),
           SRow("ST2", "SKU1", 1, 0, 2, 0, 4, 1) >>)

\* store extracts without waste columns, with both, and with one of the two
BuilderStore ==
    {Cleaned(df, "store_forecasts") :
        df \in HealthStore \cup WasteStore \cup {OverCapacity, OtherOffsetStore}}
    \cup {Cleaned(WithoutColumn(df, c), "store_forecasts") :
            df \in WasteStore, c \in CsvWasteCols}

InitBuilder == scenario = "builder" /\ InitFacade

\* a direct call of a method that reads nothing but its arguments; a run of
\* this scenario is one such call, made by a caller that has made none yet
DirectCall(op, args, out) ==
    /\ returned = NoCall
    /\ returned' = Outcome(op, args, out, "")
    /\ UNCHANGED <<scenario, facade, loaded>>

SafeDivide(numerator, denominator, default) ==
    DirectCall("safe_divide", <<numerator, denominator, default>>,
               Return(safe_divide_series(numerator, denominator, default)))

ValidateDataframe(df, name) ==
    DirectCall("validate_dataframe", <<df, name>>, Return(validate_dataframe(df, name)))

ComputeFactoryKpis(df) ==
    DirectCall("_compute_factory_kpis", <<df>>, compute_factory_kpis(df))

ComputeDcKpis(df) == DirectCall("_compute_dc_kpis", <<df>>, compute_dc_kpis(df))

ComputeStoreKpis(df) ==
    DirectCall("_compute_store_kpis", <<df>>, compute_store_kpis(df))

\* builder.build_intermediate_dataframe() on a builder of the caller's own:
\* the reports are appended to the builder's list, the table replaces the
\* builder's table when the build returns; loaded keeps the first build
Built(raw, built) ==
    /\ returned.op \in {"", "build_intermediate_dataframe"}
    /\ _dataframe_builder' =
          << [ base_dir |-> "/app",
               quality_reports |->
                   (IF _dataframe_builder = <<>> THEN <<>>
                    ELSE _dataframe_builder[1].quality_reports)
                   \o built.quality_reports ] >>
    /\ _raw_dataframes' = raw
    /\ _intermediate_df' = IF built.raised = "" THEN built.intermediate_df
                           ELSE _intermediate_df
    /\ returned' = Outcome("build_intermediate_dataframe", <<>>,
                           [ raised |-> built.raised,
                             value |-> IF built.raised = "" THEN built.intermediate_df[1]
                                       ELSE EmptyDataFrame ], "")
    /\ loaded' = IF loaded = <<>> /\ built.raised = ""
                 THEN << [ intermediate_df |-> built.intermediate_df[1],
                           raw_dataframes |-> raw,
                           quality_reports |-> built.quality_reports,
                           processed_dfs |-> built.processed_dfs ] >>
                 ELSE loaded
    /\ UNCHANGED scenario

\* the first build loads the extracts (raw_dataframes is empty), a later one
\* reads the extracts the builder holds; at most MaxBuilds builds per builder.
\* key_order is drawn anew at each build: the next build may run in another
\* interpreter
BuildIntermediateDataframe(key_order) ==
    IF _dataframe_builder = <<>>
    THEN \E files \in FileSystems("lifecycle") :
            Built(load_raw_data(files),
                  build_intermediate_dataframe(load_raw_data(files), key_order))
    ELSE /\ Len(_dataframe_builder[1].quality_reports)
                < MaxBuilds * Cardinality(DOMAIN _raw_dataframes)
         /\ Built(_raw_dataframes,
                  build_intermediate_dataframe(_raw_dataframes, key_order))

\* the static methods and the three builders read their arguments only
StaticCall ==
    \/ \E df \in BuilderFactory : ComputeFactoryKpis(df)
    \/ \E df \in BuilderDc : ComputeDcKpis(df)
    \/ \E df \in BuilderStore : ComputeStoreKpis(df)
    \/ \E df \in DirtyTables \cup QuantityTables \cup {EmptyDataFrame} :
          ValidateDataframe(df, "dc_forecasts")
    \/ \E numerator \in SeriesInputs, denominator \in SeriesInputs, default \in Defaults :
          SafeDivide(numerator, denominator, default)

NextBuilder ==
    \/ \E key_order \in KeyOrders : BuildIntermediateDataframe(key_order)
    \/ returned = NoCall /\ StaticCall

SpecBuilder == InitBuilder /\ [][NextBuilder]_vars

\* ------------------------------------------------------------- properties
FacadeGetters ==
    {"get_dataframe", "get_factory_kpis", "get_dc_kpis", "get_store_kpis",
     "get_node_health", "get_global_command_center_kpis"}

DomainGetters == {"get_factory_kpis", "get_dc_kpis", "get_store_kpis"}

\* per domain getter: the extract it serves, its id columns and its levels from
\* the coarsest to the most granular
DomainOf(op) ==
    CASE op = "get_factory_kpis" ->
            [ key |-> "factory_predictions", idCol |-> "factory_id", subCol |-> "line_id",
              levels |-> <<"factory", "factory_line", "factory_line_date",
                           "factory_line_date_hour">> ]
      [] op = "get_dc_kpis" ->
            [ key |-> "dc_forecasts", idCol |-> "dc_id", subCol |-> "sku_id",
              levels |-> <<"dc", "dc_sku", "dc_sku_date_hour">> ]
      [] op = "get_store_kpis" ->
            [ key |-> "store_forecasts", idCol |-> "store_id", subCol |-> "sku_id",
              levels |-> <<"store", "store_sku", "store_sku_date_hour">> ]

\* the KPI table the successful build made of the extract key (empty when the
\* file was missing)
DomainTable(l, key) ==
    LET present == SelectSeq(DomainKeys, LAMBDA k : k \in DOMAIN l.raw_dataframes)
        at == {i \in 1..Len(present) : present[i] = key}
    IN  IF at = {} THEN EmptyDataFrame ELSE l.processed_dfs[CHOOSE i \in at : TRUE]

Absent(l, key) == IsEmpty(DomainTable(l, key))

\* the last call was op, and the caller has not modified what it returned
Called(op) == returned.op = op /\ ~returned.touched

\* C1: before initialize has completed successfully every facade getter ends in
\* the "not initialized" error (RuntimeError), and after a successful
\* initialize, also one over zero usable extracts, no getter ends in that error.
C1_NotInitializedIsDistinct ==
    returned.op \in FacadeGetters =>
        /\ loaded = <<>> => returned.raised = "RuntimeError"
        /\ loaded # <<>> => returned.raised # "RuntimeError"

\* initialize succeeded over zero usable extracts and a getter returned an
\* empty table
C1_Witness ==
    /\ loaded # <<>>
    /\ \A key \in SeqToSet(DomainKeys) : Absent(loaded[1], key)
    /\ Called("get_factory_kpis")
    /\ returned.raised = ""
    /\ IsEmpty(returned.value)

\* C2: after a successful initialize in which one domain is absent and another
\* was aggregated, the absent domain's getter returns an empty table without
\* raising, and get_node_health and get_global_command_center_kpis return
\* without raising.
C2_AbsentDomainReadsEmpty ==
    ( /\ loaded # <<>>
      /\ \E a, b \in SeqToSet(DomainKeys) : Absent(loaded[1], a) /\ ~Absent(loaded[1], b) )
    => /\ ( returned.op \in DomainGetters /\ Absent(loaded[1], DomainOf(returned.op).key) )
          => returned.raised = "" /\ IsEmpty(returned.value)
       /\ returned.op \in {"get_node_health", "get_global_command_center_kpis"}
          => returned.raised = ""

\* C3: with the coarser key alone, and an entity-level row of that entity in the
\* table, every returned row is at the entity level and belongs to the entity.
C3_CoarseKeyGivesEntityLevel ==
    ( /\ returned.op \in DomainGetters
      /\ returned.raised = ""
      /\ returned.args[1] # NoId /\ returned.args[2] = NoId
      /\ \E i \in DOMAIN loaded[1].intermediate_df.rows :
            LET r == loaded[1].intermediate_df.rows[i]
            IN  /\ DomainOf(returned.op).idCol \in DOMAIN r
                /\ r[DomainOf(returned.op).idCol] = returned.args[1]
                /\ r.kpi_level = DomainOf(returned.op).levels[1] )
    => \A i \in DOMAIN returned.value.rows :
          /\ returned.value.rows[i].kpi_level = DomainOf(returned.op).levels[1]
          /\ returned.value.rows[i][DomainOf(returned.op).idCol] = returned.args[1]

\* get_dc_kpis("DC1") returned rows while the table holds finer rows of DC1
C3_Witness ==
    /\ Called("get_dc_kpis")
    /\ returned.args = <<"DC1", NoId>>
    /\ returned.raised = ""
    /\ returned.value.rows # <<>>
    /\ \E i \in DOMAIN loaded[1].intermediate_df.rows :
          LET r == loaded[1].intermediate_df.rows[i]
          IN  "dc_id" \in DOMAIN r /\ r.dc_id = "DC1" /\ r.kpi_level = "dc_sku"

\* the position of level in levels
LevelRank(levels, level) == CHOOSE i \in DOMAIN levels : levels[i] = level

\* the rows of the table that match both keys
MatchingBoth(l, d, id, sub) ==
    SelectSeq(l.intermediate_df.rows,
              LAMBDA r : /\ d.idCol \in DOMAIN r /\ r[d.idCol] = id
                         /\ d.subCol \in DOMAIN r /\ r[d.subCol] = sub)

\* C4: with both keys, every returned row is at the most granular level that
\* has a row matching the two keys; so all returned rows share one level.
C4_BothKeysGiveMostGranularLevel ==
    ( /\ returned.op \in DomainGetters
      /\ ~returned.touched
      /\ returned.raised = ""
      /\ returned.args[1] # NoId /\ returned.args[2] # NoId )
    => LET d == DomainOf(returned.op)
           m == MatchingBoth(loaded[1], d, returned.args[1], returned.args[2])
       IN  /\ m # <<>> => returned.value.rows # <<>>
           /\ \A i \in DOMAIN returned.value.rows :
                 \A j \in DOMAIN m :
                    LevelRank(d.levels, m[j].kpi_level)
                       <= LevelRank(d.levels, returned.value.rows[i].kpi_level)

\* C5: after initialize the cached intermediate table and the cached raw
\* extracts stay equal to their values right after initialize, whatever
\* getters and services are called and whatever callers do with the results.
C5_CachesStayAsLoaded ==
    loaded # <<>> =>
        /\ _intermediate_df = <<loaded[1].intermediate_df>>
        /\ _raw_dataframes = loaded[1].raw_dataframes

\* C6: once initialize has succeeded, a further initialize call changes nothing
\* of the facade: not the intermediate table, not the raw extracts, not the
\* builder with its quality reports.
C6_InitializeIsNoOp ==
    [][(loaded # <<>> /\ returned'.op = "initialize") => facade' = facade]_vars

\* a further initialize, with another base directory, has returned
C6_Witness ==
    /\ loaded # <<>>
    /\ returned.op = "initialize"
    /\ returned.raised = ""
    /\ returned.args[1] # _dataframe_builder[1].base_dir

\* C7: initialization is all or nothing: while the intermediate table is unset
\* the facade holds neither raw extracts nor a builder.
C7_AllOrNothing ==
    _intermediate_df = <<>> => _raw_dataframes = <<>> /\ _dataframe_builder = <<>>

\* the status the classification rule gives to a pair
ClaimedStatus(service_level, waste_pct) ==
    IF RLt(RInt(90), service_level) /\ RLt(waste_pct, RInt(5)) THEN "good"
    ELSE IF RLt(service_level, RInt(75)) \/ RLt(RInt(15), waste_pct) THEN "danger"
    ELSE "warning"

\* C8: every node-health record is "good" exactly when service_level > 90 and
\* waste_pct < 5, otherwise "danger" exactly when service_level < 75 or
\* waste_pct > 15, otherwise "warning".
C8_StatusClassification ==
    ( Called("get_node_health") /\ returned.raised = "" )
    => \A i \in DOMAIN returned.value :
          returned.value[i].status
             = ClaimedStatus(returned.value[i].service_level, returned.value[i].waste_pct)

\* a stockout incident is recorded in some aggregate row of the store
HasStockout(l, store_id) ==
    \E i \in DOMAIN l.intermediate_df.rows :
        LET r == l.intermediate_df.rows[i]
        IN  /\ "store_id" \in DOMAIN r /\ r.store_id = store_id
            /\ "stockout_incidents" \in DOMAIN r /\ r.stockout_incidents > 0

\* C9: alerts is 1 if waste_pct > 10 else 0, plus, for a store, 1 if any
\* stockout incident is recorded for that store.
C9_AlertCount ==
    ( Called("get_node_health") /\ returned.raised = "" )
    => \A i \in DOMAIN returned.value :
          LET n == returned.value[i]
          IN  n.alerts
                 = (IF RLt(RInt(10), n.waste_pct) THEN 1 ELSE 0)
                   + (IF n.type = "Store" /\ HasStockout(loaded[1], n.node_id)
                      THEN 1 ELSE 0)

\* the ids in column idCol of the intermediate table
IdsIn(l, idCol) ==
    { l.intermediate_df.rows[i][idCol] :
        i \in {j \in DOMAIN l.intermediate_df.rows : idCol \in DOMAIN l.intermediate_df.rows[j]} }

\* C10: get_node_health returns exactly one record per factory_id, dc_id and
\* store_id that has an aggregate row in the intermediate table, each with the
\* type of its domain.
C10_OneRecordPerEntity ==
    ( Called("get_node_health") /\ loaded # <<>> )
    => /\ returned.raised = ""
       /\ \A t \in { <<"Factory", "factory_id">>, <<"DC", "dc_id">>, <<"Store", "store_id">> } :
             \A id \in IdsIn(loaded[1], t[2]) :
                Cardinality({i \in DOMAIN returned.value :
                                /\ returned.value[i].type = t[1]
                                /\ returned.value[i].node_id = id}) = 1
       /\ \A i \in DOMAIN returned.value :
             \E t \in { <<"Factory", "factory_id">>, <<"DC", "dc_id">>, <<"Store", "store_id">> } :
                /\ returned.value[i].type = t[1]
                /\ returned.value[i].node_id \in IdsIn(loaded[1], t[2])

\* C11: safe_divide is elementwise: at every position where the denominator is
\* 0 the result is the given default, whatever the numerator; at every position
\* where the denominator is not 0 (and both cells are numbers) the result is
\* numerator/denominator; no position of the result is NaN or infinite.
C11_SafeDivideElementwise ==
    returned.op = "safe_divide" =>
        LET numerator == returned.args[1]
            denominator == returned.args[2]
            default == returned.args[3]
            result == returned.value
        IN  /\ Len(result) = Max2(Len(numerator), Len(denominator))
            /\ \A i \in 1..Len(result) :
                  /\ result[i] # <<>>
                  /\ result[i][1].d # 0
                  /\ CellAt(denominator, i) = <<0>> => result[i] = <<default>>
                  /\ ( /\ CellAt(denominator, i) \notin {<<>>, <<0>>}
                       /\ CellAt(numerator, i) # <<>> )
                     => result[i][1].n * denominator[i][1]
                            = numerator[i][1] * result[i][1].d

\* one call divided a non-zero numerator by 0 with the default 1.0 at one
\* position and by a non-zero denominator at another
C11_Witness ==
    /\ returned.op = "safe_divide"
    /\ returned.args[3] = RInt(1)
    /\ returned.args[1] = << <<2>>, <<1>> >>
    /\ returned.args[2] = << <<0>>, <<2>> >>
    /\ returned.value = << <<RInt(1)>>, <<[n |-> 1, d |-> 2]>> >>

\* the count the report holds for column c; the report lists only the columns
\* that had a negative entry, a column it does not list had none
InvalidCount(report, c) ==
    IF c \in DOMAIN report.invalid_values THEN report.invalid_values[c] ELSE 0

\* C12: after validate_dataframe every (numeric) column whose name contains
\* qty, units, stock, demand or capacity has no negative entry in the cleaned
\* table, and the report's invalid_values count for that column is the number
\* of negative entries the column had in the input.
C12_QuantityColumnsClipped ==
    returned.op = "validate_dataframe" =>
        LET input == returned.args[1]
            cleaned == returned.value.df
            report == returned.value.report
        IN  \A c \in input.columns \cap QuantityCols :
              /\ \A i \in 1..Len(cleaned.rows) :
                    c \in DOMAIN cleaned.rows[i] => cleaned.rows[i][c] >= 0
              /\ InvalidCount(report, c)
                    = Cardinality({i \in 1..Len(input.rows) :
                                     c \in DOMAIN input.rows[i] /\ input.rows[i][c] < 0})

\* a table with two negative stocks, a NaN demand and a negative offset was
\* validated: the stocks were clipped and counted, the offset was left alone
C12_Witness ==
    /\ returned.op = "validate_dataframe"
    /\ Len(returned.args[1].rows) = 2
    /\ "forecast_hour_offset" \in returned.args[1].columns
    /\ \A i \in 1..2 : /\ "opening_stock_units" \in DOMAIN returned.args[1].rows[i]
                       /\ returned.args[1].rows[i].opening_stock_units < 0
                       /\ returned.value.df.rows[i].opening_stock_units = 0
                       /\ returned.value.df.rows[i].forecast_hour_offset = -1
    /\ "predicted_demand" \notin DOMAIN returned.args[1].rows[1]
    /\ returned.value.report.invalid_values = [opening_stock_units |-> 2]

ComputeOps == {"_compute_factory_kpis", "_compute_dc_kpis", "_compute_store_kpis"}

PercentageCols ==
    { "line_utilization_pct", "production_adherence_pct", "defect_rate_pct",
      "service_level_pct", "waste_pct", "on_shelf_availability_pct" }

\* C13: in every row of every per-domain KPI table, at every level, each
\* percentage column (line_utilization_pct, production_adherence_pct,
\* defect_rate_pct, service_level_pct, waste_pct, on_shelf_availability_pct)
\* lies in the closed range 0..100.
C13_PercentagesWithin0And100 ==
    (returned.op \in ComputeOps /\ returned.raised = "") =>
        \A i \in 1..Len(returned.value.rows) :
            \A c \in PercentageCols \cap DOMAIN returned.value.rows[i] :
                /\ RLe(RInt(0), returned.value.rows[i][c])
                /\ RLe(returned.value.rows[i][c], RInt(100))

\* the columns that name the entity and the time bucket of a KPI row; every
\* other column of a KPI table is a KPI column
DimensionCols ==
    {"factory_id", "line_id", "dc_id", "store_id", "sku_id", "date", "hour"}

\* every KPI column of every row of the table holds a value
NoUndefinedKpi(df) ==
    \A i \in 1..Len(df.rows) : df.columns \ DimensionCols \subseteq DOMAIN df.rows[i]

\* C14: no NaN appears in any KPI column of the tables exposed to callers: in
\* each per-domain stacked table, and in the rows get_factory_kpis, get_dc_kpis
\* and get_store_kpis return, every KPI column of every row holds a defined
\* number, also in the rows of a level at which a KPI such as days_cover is
\* not computed.
C14_NoUndefinedKpiValue ==
    /\ loaded # <<>> =>
          \A k \in 1..Len(loaded[1].processed_dfs) :
              NoUndefinedKpi(loaded[1].processed_dfs[k])
    /\ (returned.op \in DomainGetters /\ ~returned.touched /\ returned.raised = "")
          => NoUndefinedKpi(returned.value)

\* the rows of level of the factory KPI table df that belong to factory_id
FactoryRowsAt(df, level, factory_id) ==
    SelectSeq(df.rows, LAMBDA r : r.kpi_level = level /\ r.factory_id = factory_id)

\* C15: for every cleaned factory extract and every factory, prod_actual_qty
\* of the factory-level row equals the sum of prod_actual_qty over the
\* factory's factory_line rows, and likewise over its factory_line_date rows
\* and over its factory_line_date_hour rows.
C15_LevelsAddUp ==
    (returned.op = "_compute_factory_kpis" /\ returned.raised = "") =>
        \A i \in 1..Len(returned.value.rows) :
            returned.value.rows[i].kpi_level = "factory" =>
                \A level \in {"factory_line", "factory_line_date", "factory_line_date_hour"} :
                    returned.value.rows[i].prod_actual_qty
                      = SumCol(FactoryRowsAt(returned.value, level,
                                             returned.value.rows[i].factory_id),
                               "prod_actual_qty")

\* the raw rows behind the aggregate row r: those that agree with r on every
\* dimension column r holds
GroupMembers(rows, r) ==
    SelectSeq(rows, LAMBDA x :
        \A k \in (DOMAIN r) \cap DimensionCols : k \in DOMAIN x /\ x[k] = r[k])

\* the rows of the forecast for the next hour
NextHourRows(df) ==
    IF "forecast_hour_offset" \in df.columns
    THEN SelectSeq(df.rows, LAMBDA x : "forecast_hour_offset" \in DOMAIN x
                                       /\ x.forecast_hour_offset = 1)
    ELSE df.rows

\* v is scale * num / den, or 0.0 when den is 0
IsRatio(v, num, den, scale) ==
    IF den = 0 THEN v = RInt(0) ELSE v.n * den = scale * num * v.d

FactoryRatiosFromSums(rows, r) ==
    /\ IsRatio(r.line_utilization_pct, SumCol(rows, "prod_actual_qty"),
               SumCol(rows, "batch_size_units"), 100)
    /\ IsRatio(r.production_adherence_pct, SumCol(rows, "prod_actual_qty"),
               SumCol(rows, "prod_plan_qty"), 100)
    /\ IsRatio(r.defect_rate_pct, SumCol(rows, "defect_qty"),
               SumCol(rows, "prod_actual_qty"), 100)

DcRatiosFromSums(stock, demand, r) ==
    /\ IsRatio(r.service_level_pct, Min2(stock, demand), demand, 100)
    /\ IsRatio(r.waste_pct, Max2(stock - demand, 0), stock, 100)
    /\ "days_cover" \in DOMAIN r => IsRatio(r.days_cover, stock, demand, 1)

\* C16: at every level of every builder each ratio KPI of a group is the ratio
\* of the group's summed numerator to its summed denominator over the raw rows
\* of the group (times 100 for a percentage), never a mean of finer
\* percentages; two rows of one factory, line, date and hour with actual 80
\* and 120 over batch sizes 100 and 100 give line_utilization_pct 100.0.
C16_RatiosFromSums ==
    (returned.op \in ComputeOps /\ returned.raised = "") =>
        \A i \in 1..Len(returned.value.rows) :
            LET r == returned.value.rows[i]
            IN  CASE returned.op = "_compute_factory_kpis" ->
                       FactoryRatiosFromSums(GroupMembers(returned.args[1].rows, r), r)
                  [] returned.op = "_compute_dc_kpis" ->
                       DcRatiosFromSums(
                           SumCol(GroupMembers(NextHourRows(returned.args[1]), r),
                                  "opening_stock_units"),
                           SumCol(GroupMembers(NextHourRows(returned.args[1]), r),
                                  "predicted_demand"), r)
                  [] returned.op = "_compute_store_kpis" ->
                       IsRatio(r.on_shelf_availability_pct,
                               SumCol(GroupMembers(NextHourRows(returned.args[1]), r),
                                      "on_shelf_units"),
                               SumCol(GroupMembers(NextHourRows(returned.args[1]), r),
                                      "planogram_capacity_units"), 100)

\* the two rows with actual 80 and 120, plan 50 and 150, batch sizes 100 and
\* 100 were aggregated: utilisation and adherence are both 100.0, while the
\* mean of the rows' adherence percentages (160 and 80) is 120
C16_Witness ==
    /\ returned.op = "_compute_factory_kpis"
    /\ returned.raised = ""
    /\ Len(returned.args[1].rows) = 2
    /\ returned.args[1].rows[1].prod_actual_qty = 80
    /\ returned.args[1].rows[2].prod_actual_qty = 120
    /\ \E i \in 1..Len(returned.value.rows) :
          /\ returned.value.rows[i].kpi_level = "factory_line_date_hour"
          /\ returned.value.rows[i].prod_actual_qty = 200
          /\ returned.value.rows[i].line_utilization_pct = RInt(100)
          /\ returned.value.rows[i].production_adherence_pct = RInt(100)

\* the DC aggregate row r of a group with the given stock and demand
DcRowAsClaimed(stock, demand, r) ==
    /\ r.backorder_units = IF stock = 0 THEN demand ELSE 0
    /\ IsRatio(r.service_level_pct, Min2(stock, demand), demand, 100)

\* C17: in every DC aggregate row, at every level, backorder_units is the
\* group's demand when the group's stock is 0 and 0 otherwise, and
\* service_level_pct is 100 * min(stock, demand) / demand, 0.0 when the demand
\* is 0; a group with stock 0 and demand 50 has backorder_units 50 and
\* service_level_pct 0.0.
C17_BackordersAndServiceLevel ==
    (returned.op = "_compute_dc_kpis" /\ returned.raised = "") =>
        \A i \in 1..Len(returned.value.rows) :
            DcRowAsClaimed(
                SumCol(GroupMembers(NextHourRows(returned.args[1]), returned.value.rows[i]),
                       "opening_stock_units"),
                SumCol(GroupMembers(NextHourRows(returned.args[1]), returned.value.rows[i]),
                       "predicted_demand"),
                returned.value.rows[i])

\* the extract with stock 0 and demand 50 was aggregated: every level has
\* backorder_units 50 and service_level_pct 0.0
C17_Witness ==
    /\ returned.op = "_compute_dc_kpis"
    /\ returned.raised = ""
    /\ Len(returned.args[1].rows) = 1
    /\ returned.args[1].rows[1].opening_stock_units = 0
    /\ returned.args[1].rows[1].predicted_demand = 50
    /\ Len(returned.value.rows) = 3
    /\ \A i \in 1..3 : /\ returned.value.rows[i].backorder_units = 50
                       /\ returned.value.rows[i].service_level_pct = RInt(0)

\* the waste of the store aggregate row r under the policy the claim states,
\* given the columns of the extract and the raw rows of the group
WasteAsClaimed(columns, rows, r) ==
    IF {"waste_units", "waste_cost"} \subseteq columns
    THEN /\ r.waste_units = SumCol(rows, "waste_units")
         /\ r.waste_sar = SumCol(rows, "waste_cost")
    ELSE /\ r.waste_units = Max2(SumCol(rows, "on_shelf_units")
                                 - SumCol(rows, "planogram_capacity_units"), 0)
         /\ r.waste_sar = r.waste_units * 10

\* C18: store waste policy: when the (cleaned) store extract has both the
\* waste_units and the waste_cost column, waste_units and waste_sar of every
\* aggregate row are the group's sums of those columns; when either column is
\* missing, waste_units is max(on_shelf - capacity, 0) of the group and
\* waste_sar is waste_units * 10.0 (on_shelf 120 over capacity 100 gives 20
\* units and 200.0 SAR). The choice depends on the columns of the extract
\* only, never on the values of the rows.
C18_StoreWastePolicy ==
    (returned.op = "_compute_store_kpis" /\ returned.raised = "") =>
        \A i \in 1..Len(returned.value.rows) :
            WasteAsClaimed(returned.args[1].columns,
                           GroupMembers(NextHourRows(returned.args[1]), returned.value.rows[i]),
                           returned.value.rows[i])

\* an extract with both waste columns, whose rows are over their capacity and
\* report no waste, was aggregated to rows without waste
C18_Witness ==
    /\ returned.op = "_compute_store_kpis"
    /\ returned.raised = ""
    /\ {"waste_units", "waste_cost"} \subseteq returned.args[1].columns
    /\ \E i \in 1..Len(returned.value.rows) :
          /\ returned.value.rows[i].kpi_level = "store_sku_date_hour"
          /\ returned.value.rows[i].on_shelf_units
                > returned.value.rows[i].planogram_capacity_units
          /\ returned.value.rows[i].waste_units = 0
          /\ returned.value.rows[i].waste_sar = 0

RequiredCols(key) ==
    IF key = "factory_predictions" THEN FactorySumCols
    ELSE IF key = "dc_forecasts" THEN DcSumCols
    ELSE StoreSumCols

\* the levels of the extract key's KPI table
LevelsOf(key) ==
    IF key = "factory_predictions"
    THEN {"factory", "factory_line", "factory_line_date", "factory_line_date_hour"}
    ELSE IF key = "dc_forecasts" THEN {"dc", "dc_sku", "dc_sku_date_hour"}
    ELSE {"store", "store_sku", "store_sku_date_hour"}

\* after a successful build, a domain whose extract lacks a required column is
\* absent and every other domain has rows at each of its levels
AggregatedOrAbsent(l) ==
    \A key \in DOMAIN l.raw_dataframes :
        IF RequiredCols(key) \subseteq l.raw_dataframes[key].columns
        THEN {DomainTable(l, key).rows[i].kpi_level :
                 i \in 1..Len(DomainTable(l, key).rows)} = LevelsOf(key)
        ELSE IsEmpty(DomainTable(l, key))

\* C20: an extract that lacks a required column gives an empty table without
\* raising, which is not fatal for the build: the other domains are fully
\* aggregated and initialize succeeds. More generally a column missing from
\* one domain's extract never makes the build raise; the domain is then either
\* fully aggregated or fully absent.
C20_MissingColumnIsNotFatal ==
    /\ returned.op = "initialize" => returned.raised = ""
    /\ loaded # <<>> => AggregatedOrAbsent(loaded[1])

\* the extract df without the rows of another forecast horizon than the next hour
NextHourOnly(df) == [df EXCEPT !.rows = NextHourRows(df)]

\* C21: in the DC and store builders the forecast_hour_offset == 1 filter comes
\* before any grouping: every aggregate row at every level is computed from
\* input rows of offset 1 only, and an input row of another offset contributes
\* to no KPI value, no stockout count and no row of the domain's table (the
\* table is the one the builder makes of the offset-1 rows alone).
C21_OffsetFilterBeforeGrouping ==
    (returned.op \in {"_compute_dc_kpis", "_compute_store_kpis"} /\ returned.raised = "") =>
        /\ returned.value =
              (IF returned.op = "_compute_dc_kpis"
               THEN compute_dc_kpis(NextHourOnly(returned.args[1]))
               ELSE compute_store_kpis(NextHourOnly(returned.args[1]))).value
        /\ \A i \in 1..Len(returned.value.rows) :
              GroupMembers(NextHourRows(returned.args[1]), returned.value.rows[i]) # <<>>

\* a store extract with an empty shelf at offset 2 and a store that has an
\* offset-2 row only was aggregated: no stockout is counted and the second
\* store has no row
C21_Witness ==
    /\ returned.op = "_compute_store_kpis"
    /\ returned.raised = ""
    /\ \E i \in 1..Len(returned.args[1].rows) :
          /\ returned.args[1].rows[i].forecast_hour_offset = 2
          /\ returned.args[1].rows[i].on_shelf_units = 0
          /\ returned.args[1].rows[i].store_id = "ST2"
    /\ Len(returned.value.rows) = 3
    /\ \A i \in 1..3 : /\ returned.value.rows[i].store_id = "ST1"
                       /\ returned.value.rows[i].stockout_incidents = 0
                       /\ returned.value.rows[i].on_shelf_units = 2

\* the number of rows of a sequence whose shelf is empty
EmptyShelves(rows) ==
    Len(SelectSeq(rows, LAMBDA x : "on_shelf_units" \in DOMAIN x /\ x.on_shelf_units = 0))

\* the stockout counts of the rows of one level for one store, added up
RECURSIVE StockoutsAt(_, _, _)
StockoutsAt(rows, level, store_id) ==
    IF rows = <<>> THEN 0
    ELSE (IF rows[1].kpi_level = level /\ rows[1].store_id = store_id
          THEN rows[1].stockout_incidents ELSE 0)
         + StockoutsAt(Tail(rows), level, store_id)

\* C22: at each store level stockout_incidents is the number of offset-filtered
\* input rows of the group whose on_shelf_units is 0: one counting rule at all
\* three levels, so the count of a store is the sum of the counts of its
\* store_sku rows.
C22_StockoutsCountEmptyShelfRows ==
    (returned.op = "_compute_store_kpis" /\ returned.raised = "") =>
        \A i \in 1..Len(returned.value.rows) :
            LET r == returned.value.rows[i] IN
            /\ r.stockout_incidents = EmptyShelves(GroupMembers(NextHourRows(returned.args[1]), r))
            /\ r.kpi_level = "store" =>
                  r.stockout_incidents = StockoutsAt(returned.value.rows, "store_sku", r.store_id)

\* the rows of the per-domain KPI tables, one table after the other
RECURSIVE DomainRows(_)
DomainRows(processed_dfs) ==
    IF processed_dfs = <<>> THEN <<>>
    ELSE processed_dfs[1].rows \o DomainRows(Tail(processed_dfs))

\* the number of rows of a sequence equal to x (an undefined cell is a missing
\* column)
Copies(rows, x) == Len(SelectSeq(rows, LAMBDA r : r = x))

\* C23: the assembler's merge is row-preserving and never cross-joins: every
\* row of each per-domain KPI table appears exactly once in the intermediate
\* table, no intermediate row combines KPI values of two domains, and the row
\* count is the sum of the per-domain row counts, whichever domains are
\* present, empty or absent.
C23_MergeKeepsDomainRows ==
    loaded # <<>> =>
        LET rows == DomainRows(loaded[1].processed_dfs)
            merged == loaded[1].intermediate_df.rows
        IN  /\ Len(merged) = Len(rows)
            /\ \A i \in 1..Len(rows) : Copies(merged, rows[i]) = 1
            /\ \A i \in 1..Len(merged) : \E j \in 1..Len(rows) : merged[i] = rows[j]

\* three non-empty per-domain tables were merged
C23_Witness ==
    /\ loaded # <<>>
    /\ Len(loaded[1].processed_dfs) = 3
    /\ \A i \in 1..3 : Len(loaded[1].processed_dfs[i].rows) >= 3
    /\ Len(loaded[1].intermediate_df.rows) >= 9
    /\ \E i, j \in 1..Len(loaded[1].intermediate_df.rows) :
          /\ "factory_id" \in DOMAIN loaded[1].intermediate_df.rows[i]
          /\ "store_id" \in DOMAIN loaded[1].intermediate_df.rows[j]

\* C24: in get_global_command_center_kpis forecast_accuracy is 100 minus the
\* mean parsed MAPE, clamped to 0..100, whenever the factory extract has at
\* least one parseable MAPE value; the production-adherence proxy is used only
\* when MAPE data is absent.
C24_ForecastAccuracyFromMape ==
    ( Called("get_global_command_center_kpis") /\ returned.raised = "" /\ loaded # <<>>
      /\ "factory_predictions" \in DOMAIN _raw_dataframes
      /\ "MAPE" \in _raw_dataframes["factory_predictions"].columns
      /\ ParsedMape(_raw_dataframes["factory_predictions"].rows) # <<>> ) =>
        LET parsed == ParsedMape(_raw_dataframes["factory_predictions"].rows)
            avg_mape == Rat(SumCol(parsed, "MAPE"), Len(parsed))
        IN  returned.value.forecast_accuracy =
               Round1(RMax(RInt(0), RMin(RInt(100), RSub(RInt(100), avg_mape))))

\* the cells of a table that are missing, or negative in a quantity column
BadCells(df) ==
    { ic \in (1..Len(df.rows)) \X df.columns :
        \/ ic[2] \notin DOMAIN df.rows[ic[1]]
        \/ ic[2] \in QuantityCols /\ df.rows[ic[1]][ic[2]] < 0 }

\* C25: the quality score is 1 - (missing_cells + invalid_cells) / total_cells
\* and lies in 0..1 for every input table: it is 1.0 for a table with no rows
\* or no columns and 0.0 for a table in which every cell is missing or negative.
C25_QualityScoreWithinUnit ==
    (returned.op = "validate_dataframe" /\ returned.raised = "") =>
        LET df == returned.args[1]
            score == returned.value.report.data_quality_score
            total_cells == Len(df.rows) * Cardinality(df.columns)
            bad == Cardinality(BadCells(df))
        IN  /\ RLe(RInt(0), score) /\ RLe(score, RInt(1))
            /\ total_cells = 0 => score = RInt(1)
            /\ total_cells > 0 => score = RSub(RInt(1), Rat(bad, total_cells))
            /\ (total_cells > 0 /\ bad = total_cells) => score = RInt(0)

\* a table of two rows in which every cell is missing or negative was scored 0
C25_Witness ==
    /\ returned.op = "validate_dataframe"
    /\ returned.raised = ""
    /\ Len(returned.args[1].rows) = 2
    /\ Cardinality(BadCells(returned.args[1])) = 4
    /\ \E i \in 1..2 : DOMAIN returned.args[1].rows[i] # {}
    /\ \E i \in 1..2 : "predicted_demand" \notin DOMAIN returned.args[1].rows[i]
    /\ returned.value.report.data_quality_score = RInt(0)

\* the rows of the intermediate table at the given level for the entity id
LevelRows(level, idCol, id) ==
    SelectSeq(_intermediate_df[1].rows,
              LAMBDA r : /\ r.kpi_level = level
                         /\ idCol \in DOMAIN r /\ r[idCol] = id)

\* C26: the service_level of a Factory node is the production_adherence_pct of
\* the factory's row at level 'factory', that of a DC node the
\* service_level_pct of the DC's row at level 'dc', rounded to one decimal: it
\* does not depend on which line, SKU, date or hour row comes first in the
\* intermediate table.
C26_ServiceLevelOfEntityRow ==
    ( Called("get_node_health") /\ returned.raised = "" /\ _intermediate_df # <<>> )
    => \A i \in DOMAIN returned.value :
          LET n == returned.value[i]
          IN  /\ n.type = "Factory" =>
                   /\ Len(LevelRows("factory", "factory_id", n.node_id)) = 1
                   /\ n.service_level =
                         Round1(LevelRows("factory", "factory_id", n.node_id)[1]
                                   .production_adherence_pct)
              /\ n.type = "DC" =>
                   /\ Len(LevelRows("dc", "dc_id", n.node_id)) = 1
                   /\ n.service_level =
                         Round1(LevelRows("dc", "dc_id", n.node_id)[1].service_level_pct)

\* the rows of a getter's table at one level
AtLevel(df, level) ==
    [df EXCEPT !.rows = SelectSeq(df.rows, LAMBDA r : r.kpi_level = level)]

\* C27: in get_global_command_center_kpis each unit of factory scrap and of
\* store waste contributes to waste_cost exactly once: the factory part is
\* UNIT_COST times the total scrap_qty of the cleaned factory extract (the
\* waste_units of the rows at level 'factory'), the store part UNIT_COST times
\* the total store waste units (the rows at level 'store'), not multiplied by
\* the number of stacked levels.
C27_WasteCountedOnce ==
    ( Called("get_global_command_center_kpis") /\ returned.raised = ""
      /\ _intermediate_df # <<>> ) =>
        LET f == get_factory_kpis(_intermediate_df, NoId, NoId).value
            d == get_dc_kpis(_intermediate_df, NoId, NoId).value
            s == get_store_kpis(_intermediate_df, NoId, NoId).value
        IN  returned.value.waste_cost =
               Round2(WasteCost(_raw_dataframes, AtLevel(f, "factory"), d,
                                AtLevel(s, "store")))

\* the bounds of the two DC percentages of the aggregate row r of a group
\* with the given summed stock and demand
DcPercentagesAsClaimed(stock, demand, r) ==
    /\ RLe(RInt(0), r.service_level_pct) /\ RLe(r.service_level_pct, RInt(100))
    /\ RLe(RInt(0), r.waste_pct) /\ RLe(r.waste_pct, RInt(100))
    /\ r.service_level_pct = RInt(100) <=> (demand > 0 /\ stock >= demand)
    /\ stock <= demand => r.waste_pct = RInt(0)

\* C28: for every cleaned DC extract and every DC aggregate row,
\* service_level_pct and waste_pct lie in 0..100; service_level_pct is 100
\* exactly when the demand is positive and the stock is at least the demand;
\* waste_pct is 0 whenever the stock is at most the demand.
C28_DcPercentagesWithin0And100 ==
    (returned.op = "_compute_dc_kpis" /\ returned.raised = "") =>
        \A i \in 1..Len(returned.value.rows) :
            DcPercentagesAsClaimed(
                SumCol(GroupMembers(NextHourRows(returned.args[1]), returned.value.rows[i]),
                       "opening_stock_units"),
                SumCol(GroupMembers(NextHourRows(returned.args[1]), returned.value.rows[i]),
                       "predicted_demand"),
                returned.value.rows[i])

\* a DC extract was aggregated into a SKU row with full service and half of
\* the stock in excess, and the DC row of its two SKUs (stock 5, demand 3)
C28_Witness ==
    /\ returned.op = "_compute_dc_kpis"
    /\ returned.raised = ""
    /\ \E i, j \in 1..Len(returned.value.rows) :
          /\ returned.value.rows[i].opening_stock_units = 4
          /\ returned.value.rows[i].predicted_demand = 2
          /\ returned.value.rows[i].service_level_pct = RInt(100)
          /\ returned.value.rows[i].waste_pct = RInt(50)
          /\ returned.value.rows[j].opening_stock_units = 5
          /\ returned.value.rows[j].predicted_demand = 3
          /\ returned.value.rows[j].kpi_level = "dc"

\* the summed actual quantity of the entity of a node-health record in the raw
\* extract of its domain
ActualOf(n) ==
    IF n.type = "Factory"
    THEN SumCol(RawRowsOf(_raw_dataframes, "factory_predictions", "factory_id", n.node_id),
                "prod_actual_qty")
    ELSE IF n.type = "DC"
    THEN SumCol(RawRowsOf(_raw_dataframes, "dc_forecasts", "dc_id", n.node_id),
                "opening_stock_units")
    ELSE SumCol(RawRowsOf(_raw_dataframes, "store_forecasts", "store_id", n.node_id),
                "on_shelf_units")

\* C29: in every node-health record waste_pct and mape are at least 0,
\* whatever the raw extracts hold, negative quantities included, and mape is
\* 0 whenever the entity's summed actual quantity is not positive.
C29_WasteAndMapeNotNegative ==
    ( Called("get_node_health") /\ returned.raised = "" )
    => \A i \in DOMAIN returned.value :
          LET n == returned.value[i]
          IN  /\ RLe(RInt(0), n.waste_pct)
              /\ RLe(RInt(0), n.mape)
              /\ ActualOf(n) <= 0 => n.mape = RInt(0)

\* C30: in every get_node_health result the status is one of good, warning
\* and danger; a Factory or DC record with status 'good' has alerts 0; alerts
\* is 0 or 1 for a Factory or a DC and 0, 1 or 2 for a Store.
C30_StatusAndAlertRanges ==
    ( Called("get_node_health") /\ returned.raised = "" )
    => \A i \in DOMAIN returned.value :
          LET n == returned.value[i]
          IN  /\ n.status \in {"good", "warning", "danger"}
              /\ n.type \in {"Factory", "DC", "Store"}
              /\ (n.type \in {"Factory", "DC"} /\ n.status = "good") => n.alerts = 0
              /\ n.type \in {"Factory", "DC"} => n.alerts \in {0, 1}
              /\ n.type = "Store" => n.alerts \in {0, 1, 2}

\* a result with a good factory without alerts, a DC in danger with an alert
\* and a store with two alerts
C30_Witness ==
    /\ Called("get_node_health")
    /\ returned.raised = ""
    /\ \E i, j, k \in DOMAIN returned.value :
          /\ returned.value[i].type = "Factory"
          /\ returned.value[i].status = "good"
          /\ returned.value[i].alerts = 0
          /\ returned.value[j].type = "DC"
          /\ returned.value[j].status = "danger"
          /\ returned.value[j].alerts = 1
          /\ returned.value[k].type = "Store"
          /\ returned.value[k].alerts = 2
====
